---- MODULE Spec2Model ----
(***************************************************************************)
(* Streaming chat-completion normalizers of llama-stack.                   *)
(*                                                                         *)
(*   vllm : one run of VLLMInferenceImpl._convert_streaming_results        *)
(*          (providers/inline/inference/vllm/vllm.py)                      *)
(*   groq : one run of convert_chat_completion_response_stream             *)
(*          (providers/remote/inference/groq/groq_utils.py)                *)
(*   meta : one run of ModelInferenceImpl.chat_completion                  *)
(*          (toolchain/inference/inference.py)                             *)
(*   streams : two runs of _convert_streaming_results side by side         *)
(*   telemetry : one call of Telemetry.query_spans                         *)
(*          (apis/telemetry/telemetry.py)                                  *)
(*   registry : a DiskRegistry (distribution/store/registry.py)            *)
(*                                                                         *)
(* Both are Python generators.  A generator runs only while its consumer   *)
(* asks for the next event, from one suspension point (a yield, or the     *)
(* await on the provider stream) to the next; each such run is one action. *)
(* The locals of a generator are the fields of one record, so that a step  *)
(* of the generator is an operator from record to record.                  *)
(*                                                                         *)
(* A Python dict is a function whose DOMAIN is the set of keys present     *)
(* ("k" in d  is  "k" \in DOMAIN d).  The insertion-ordered dict           *)
(* index_to_tool_call is a sequence of items [key, value].  A string that  *)
(* the code concatenates or JSON-decodes is a sequence of characters.      *)
(***************************************************************************)
EXTENDS Integers, Sequences, FiniteSets, TLC

VARIABLES
    vllm,       \* locals, position and output of _convert_streaming_results;
                \* under SpecProvider the fields of a VLLMInferenceImpl
    groq,       \* locals, position and output of convert_chat_completion_response_stream
    meta,       \* locals, position and output of ModelInferenceImpl.chat_completion
    streams,    \* the two concurrent runs of _convert_streaming_results
    telemetry,  \* arguments, locals and result of Telemetry.query_spans, of
                \* the tree builder (SpecTree) and of log_event (SpecConsole)
    registry,   \* the kvstore of a DiskRegistry and the register calls on it
    eval        \* the job store of a MetaReferenceEvalImpl and the calls on it

vars == <<vllm, groq, meta, streams, telemetry, registry, eval>>

\* Longest provider stream (number of raw chunks) that is explored.
MaxChunks == 3

\* Python's None, and a local variable that has not been assigned yet.
None == "None"
Unbound == "<unbound>"

-----------------------------------------------------------------------------
(* Python dict operations *)

DictSet(d, k, v) == [x \in DOMAIN d \cup {k} |-> IF x = k THEN v ELSE d[x]]

DictDel(d, k) == [x \in DOMAIN d \ {k} |-> d[x]]

EmptyDict == <<>>

-----------------------------------------------------------------------------
(* json.loads on the argument strings.  The strings are over the alphabet  *)
(* { "{", "}", "1" }; the JSON texts over it are the numerals 1, 11, ...   *)
(* and the empty object.                                                   *)

RECURSIVE DecimalValue(_)
DecimalValue(s) ==
    IF s = <<>> THEN 0
    ELSE 10 * DecimalValue(SubSeq(s, 1, Len(s) - 1)) + 1

json_loads(s) ==
    IF s = <<"{", "}">>
        THEN [ok |-> TRUE, value |-> [type |-> "dict", int |-> 0]]
    ELSE IF s /= <<>> /\ \A i \in 1..Len(s) : s[i] = "1"
        THEN [ok |-> TRUE, value |-> [type |-> "int", int |-> DecimalValue(s)]]
    ELSE [ok |-> FALSE, value |-> [type |-> "JSONDecodeError", int |-> 0]]

-----------------------------------------------------------------------------
(* Stop reasons *)

_convert_finish_reason(finish_reason) ==
    IF finish_reason = None THEN None
    ELSE IF finish_reason = "stop" THEN "end_of_turn"
    ELSE "out_of_tokens"

-----------------------------------------------------------------------------
(* Canonical events *)

TextDelta(text) == [type |-> "text", text |-> text]

ToolCallDelta(content, parse_status) ==
    [type |-> "tool_call", content |-> content, parse_status |-> parse_status]

ChatCompletionResponseEvent(event_type, delta, stop_reason) ==
    [event_type |-> event_type, delta |-> delta, stop_reason |-> stop_reason]

-----------------------------------------------------------------------------
(* Raw chunks of the vLLM stream: prefix, event record, suffix.  The event *)
(* record is the text "[DONE]", the JSON text of a completion chunk, or    *)
(* something that is not JSON.                                             *)

Framed(data) == [prefix |-> "data: ", data_str |-> data, suffix |-> "\n\n"]

DoneData == [text |-> "[DONE]"]

JsonData(finish_reason, delta) ==
    [text |-> "json",
     json |-> [choices |-> <<[finish_reason |-> finish_reason, delta |-> delta]>>]]

TextChunk(content, finish_reason) ==
    Framed(JsonData(finish_reason, [content |-> content]))

ToolCallsChunk(tool_calls, finish_reason) ==
    Framed(JsonData(finish_reason, [tool_calls |-> tool_calls]))

DoneChunk == Framed(DoneData)

\* "data: " is missing
UnframedChunk == [prefix |-> "", data_str |-> DoneData, suffix |-> "\n\n"]

NotJsonChunk == Framed([text |-> "not json"])

\* a delta record with neither "content" nor "tool_calls"
EmptyDeltaChunk == Framed(JsonData(None, EmptyDict))

CallId(index) == IF index = 0 THEN "c0" ELSE "c1"

\* the fragment that opens a call: id and function name, no arguments
TcHeader(index) ==
    [index |-> index, id |-> CallId(index), function |-> [name |-> "get_boiling_point"]]

\* a fragment that sets the id and the function name of a call again, to
\* other values
TcRenamed(index) ==
    [index |-> index, id |-> "c9", function |-> [name |-> "get_weather"]]

\* a fragment that carries a piece of the argument string
TcArguments(index, piece) ==
    [index |-> index, function |-> [arguments |-> piece]]

Indices == {0, 1}

Pieces == {<<"{">>, <<"}">>, <<"1">>}

ToolCallLists ==
    {<<TcHeader(i)>> : i \in Indices}
    \cup {<<TcRenamed(0)>>}
    \cup {<<TcArguments(i, p)>> : i \in Indices, p \in Pieces}
    \cup {<<TcArguments(i, <<"1">>), TcArguments(1 - i, <<"1">>)>> : i \in Indices}

\* content_filter stands for the finish reasons that the converters do not
\* name
TextChunks ==
    {TextChunk(c, f) : c \in {"a", "b"}, f \in {None, "stop", "length", "tool_calls"}}
    \cup {TextChunk("a", "content_filter")}

ToolCallsChunks ==
    {ToolCallsChunk(l, f) : l \in ToolCallLists, f \in {None, "tool_calls"}}

RawChunks ==
    {DoneChunk, UnframedChunk, NotJsonChunk, EmptyDeltaChunk}
    \cup TextChunks \cup ToolCallsChunks

-----------------------------------------------------------------------------
(* _convert_streaming_results *)

\* Positions of the generator: not started; suspended at one of its four
\* yields; awaiting the next chunk of vllm_result; finished.
VllmYields == {"yield_start", "yield_text", "yield_tool_call", "yield_complete"}

VllmNew ==
    [pc |-> "start",
     raised |-> "none",
     converted_stop_reason |-> Unbound,
     index_to_tool_call |-> <<>>,
     finish_reason |-> Unbound,   \* first_choice["finish_reason"] of the chunk in hand
     k |-> 0,                     \* position of the loop over index_to_tool_call.values()
     out |-> <<>>,                \* the events yielded so far
     chunks |-> <<>>,             \* the raw chunks pulled from vllm_result so far
     exhausted |-> FALSE,         \* vllm_result has ended
     decoded |-> <<>>]            \* the calls of json.loads at line 720, see Finalize

Yield(st, event, pc) == [st EXCEPT !.out = Append(@, event), !.pc = pc]

\* Raise with the slip of an exception that is swallowed inside the loop: the
\* chunk is skipped and the generator goes on to the next one
Raise_SkipsChunk(st, exception) == [st EXCEPT !.pc = "await_chunk"]

\* a raise statement: the exception leaves the generator, which is finished
Raise(st, exception) == [st EXCEPT !.pc = "raised", !.raised = exception]

\* the position of key index in the dict, 0 when it is not a key
KeyPos(d, index) ==
    IF \E j \in 1..Len(d) : d[j].key = index
        THEN CHOOSE j \in 1..Len(d) : d[j].key = index
        ELSE 0

\* EntryFor with the slip of keeping the entries in numeric index order
EntryFor_NumericOrder(d, index) ==
    IF KeyPos(d, index) = 0
        THEN LET below == SelectSeq(d, LAMBDA item : item.key < index)
                 above == SelectSeq(d, LAMBDA item : item.key > index)
             IN  below \o <<[key |-> index, value |-> EmptyDict]>> \o above
        ELSE d

\* lines 697-699: the entry of a call index, made on its first fragment; a
\* new key goes to the end of the dict
EntryFor(d, index) ==
    IF KeyPos(d, index) = 0
        THEN Append(d, [key |-> index, value |-> EmptyDict])
        ELSE d

\* Merge with the slip of keeping the call_id and the tool_name that an entry
\* already has: the first write wins
Merge_FirstWriteWins(tool_call, tc) ==
    LET t1 == IF "id" \in DOMAIN tc /\ "call_id" \notin DOMAIN tool_call
                 THEN DictSet(tool_call, "call_id", tc["id"])
                 ELSE tool_call
        function == IF "function" \in DOMAIN tc THEN tc["function"] ELSE EmptyDict
        t2 == IF "name" \in DOMAIN function /\ "tool_name" \notin DOMAIN t1
                 THEN DictSet(t1, "tool_name", function["name"])
                 ELSE t1
    IN  IF "arguments" \in DOMAIN function
            THEN LET t3 == IF "arguments_str" \notin DOMAIN t2
                              THEN DictSet(t2, "arguments_str", <<>>)
                              ELSE t2
                 IN  DictSet(t3, "arguments_str",
                             t3["arguments_str"] \o function["arguments"])
            ELSE t2

\* Merge with the slip of = for += at line 710: the last piece replaces the
\* argument string
Merge_Overwrites(tool_call, tc) ==
    LET t1 == IF "id" \in DOMAIN tc
                 THEN DictSet(tool_call, "call_id", tc["id"])
                 ELSE tool_call
        function == IF "function" \in DOMAIN tc THEN tc["function"] ELSE EmptyDict
        t2 == IF "name" \in DOMAIN function
                 THEN DictSet(t1, "tool_name", function["name"])
                 ELSE t1
    IN  IF "arguments" \in DOMAIN function
            THEN DictSet(t2, "arguments_str", function["arguments"])
            ELSE t2

\* lines 701-710: the fields of one fragment tc merged into its entry
Merge(tool_call, tc) ==
    LET t1 == IF "id" \in DOMAIN tc
                 THEN DictSet(tool_call, "call_id", tc["id"])
                 ELSE tool_call
        function == IF "function" \in DOMAIN tc THEN tc["function"] ELSE EmptyDict
        t2 == IF "name" \in DOMAIN function
                 THEN DictSet(t1, "tool_name", function["name"])
                 ELSE t1
    IN  IF "arguments" \in DOMAIN function
            THEN LET t3 == IF "arguments_str" \notin DOMAIN t2
                              THEN DictSet(t2, "arguments_str", <<>>)
                              ELSE t2
                 IN  DictSet(t3, "arguments_str",
                             t3["arguments_str"] \o function["arguments"])
            ELSE t2

\* lines 696-710: the body of the loop over the fragments
Observe(d, tc) ==
    LET d1 == EntryFor(d, tc["index"])
        j == KeyPos(d1, tc["index"])
    IN  [d1 EXCEPT ![j].value = Merge(@, tc)]

\* line 695: for tc in delta_record["tool_calls"]
RECURSIVE ObserveAll(_, _)
ObserveAll(d, tool_calls) ==
    IF tool_calls = <<>> THEN d
    ELSE ObserveAll(Observe(d, Head(tool_calls)), Tail(tool_calls))

\* lines 718-733: the loop over index_to_tool_call.values(), entered at its
\* k-th value, run up to its next yield, its raise, or its end.  Each call of
\* json.loads is logged in decoded: the index of the record, the string
\* decoded, the number of chunks pulled by then, and the position in out of
\* the event that reports the call (0 when json.loads raised).  ToolCallDelta
\* is given the record as it stands, with the keys it has.
Finalize(st, k) ==
    IF k > Len(st.index_to_tool_call)
        THEN [st EXCEPT !.pc = "await_chunk", !.k = 0]
    ELSE
        LET tool_call_record == st.index_to_tool_call[k].value
            index == st.index_to_tool_call[k].key
        IN  IF "arguments_str" \notin DOMAIN tool_call_record
                THEN Raise([st EXCEPT !.k = k], "KeyError: arguments_str")
            ELSE
                LET arguments_str == tool_call_record["arguments_str"]
                    parsed == json_loads(arguments_str)
                    st1 == [st EXCEPT !.k = k,
                                      !.decoded = Append(@,
                                          [index |-> index,
                                           arguments_str |-> arguments_str,
                                           chunk |-> Len(st.chunks),
                                           event |-> IF parsed.ok THEN Len(st.out) + 1
                                                                  ELSE 0])]
                    record == DictDel(DictSet(tool_call_record, "arguments", parsed.value),
                                      "arguments_str")
                IN  IF ~parsed.ok
                        THEN Raise(st1, "JSONDecodeError")
                    ELSE Yield([st1 EXCEPT !.index_to_tool_call[k].value = record],
                               ChatCompletionResponseEvent(
                                   "progress",
                                   ToolCallDelta(record, "succeeded"),
                                   st.converted_stop_reason),
                               "yield_tool_call")

\* AfterDelta with the slip of finalizing after every chunk, whatever its
\* finish reason
AfterDelta_AlwaysFinalizes(st) == Finalize(st, 1)

\* line 714: the end of the loop body
AfterDelta(st) ==
    IF st.finish_reason = "tool_calls"
        THEN Finalize(st, 1)
        ELSE [st EXCEPT !.pc = "await_chunk"]

\* ToolCallsDelta with an event of parse status started yielded for a chunk
\* that brings the first fragment of a call index
ToolCallsDelta_YieldsStarted(st, tool_calls) ==
    LET s1 == [st EXCEPT !.index_to_tool_call = ObserveAll(@, tool_calls)]
    IN  IF Len(s1.index_to_tool_call) > Len(st.index_to_tool_call)
            THEN Yield(s1,
                       ChatCompletionResponseEvent(
                           "progress", ToolCallDelta("", "started"),
                           st.converted_stop_reason),
                       "yield_text")
            ELSE AfterDelta(s1)

\* lines 692-710: a delta record with tool calls.  The fragments are buffered;
\* no event is yielded for them.
ToolCallsDelta(st, tool_calls) ==
    AfterDelta([st EXCEPT !.index_to_tool_call = ObserveAll(@, tool_calls)])

\* lines 646-712: one chunk pulled from vllm_result, up to the next
\* suspension point
ProcessChunk(st, chunk_str) ==
    LET s0 == [st EXCEPT !.chunks = Append(@, chunk_str)]
        data_str == chunk_str.data_str
    IN  IF chunk_str.prefix /= "data: " \/ chunk_str.suffix /= "\n\n"
            THEN Raise(s0, "ValueError: Can't parse result string from vLLM")
        ELSE IF data_str.text = "[DONE]"
            THEN IF st.converted_stop_reason = Unbound
                    THEN Raise(s0, "UnboundLocalError: converted_stop_reason")
                    ELSE Yield(s0,
                               ChatCompletionResponseEvent(
                                   "complete", TextDelta(""), st.converted_stop_reason),
                               "yield_complete")
        ELSE IF "json" \notin DOMAIN data_str
            THEN Raise(s0, "JSONDecodeError")
        ELSE
            LET first_choice == data_str.json["choices"][1]
                converted_stop_reason == _convert_finish_reason(first_choice["finish_reason"])
                delta_record == first_choice["delta"]
                s1 == [s0 EXCEPT !.converted_stop_reason = converted_stop_reason,
                                 !.finish_reason = first_choice["finish_reason"]]
            IN  IF "content" \in DOMAIN delta_record
                    THEN Yield(s1,
                               ChatCompletionResponseEvent(
                                   "progress",
                                   TextDelta(delta_record["content"]),
                                   converted_stop_reason),
                               "yield_text")
                ELSE IF "tool_calls" \in DOMAIN delta_record
                    THEN ToolCallsDelta(s1, delta_record["tool_calls"])
                ELSE Raise(s1, "ValueError: Don't know how to parse event delta")

\* Resume with the slip of a missing return at line 668: after the complete
\* event the loop goes on to the next chunk
Resume_GoesOnAfterComplete(st) ==
    CASE st.pc = "yield_start" -> [st EXCEPT !.pc = "await_chunk"]
      [] st.pc = "yield_text" -> AfterDelta(st)
      [] st.pc = "yield_tool_call" -> Finalize(st, st.k + 1)
      [] st.pc = "yield_complete" -> [st EXCEPT !.pc = "await_chunk"]

\* the generator resumed at the yield it is suspended at
Resume(st) ==
    CASE st.pc = "yield_start" -> [st EXCEPT !.pc = "await_chunk"]
      [] st.pc = "yield_text" -> AfterDelta(st)
      [] st.pc = "yield_tool_call" -> Finalize(st, st.k + 1)
      [] st.pc = "yield_complete" -> [st EXCEPT !.pc = "returned"]

\* lines 638-644
VllmStart ==
    /\ vllm.pc = "start"
    /\ vllm' = Yield(vllm,
                     ChatCompletionResponseEvent("start", TextDelta(""), None),
                     "yield_start")
    /\ UNCHANGED <<groq, meta, streams, telemetry, registry, eval>>

VllmResume ==
    /\ vllm.pc \in VllmYields
    /\ vllm' = Resume(vllm)
    /\ UNCHANGED <<groq, meta, streams, telemetry, registry, eval>>

VllmNextChunk ==
    /\ vllm.pc = "await_chunk"
    /\ Len(vllm.chunks) < MaxChunks
    /\ \E chunk_str \in RawChunks : vllm' = ProcessChunk(vllm, chunk_str)
    /\ UNCHANGED <<groq, meta, streams, telemetry, registry, eval>>

\* StreamExhausted with the slip of ending an unterminated stream by a
\* synthetic complete event, as the Groq converter does
StreamExhausted_SynthesizesComplete(st) ==
    Yield([st EXCEPT !.exhausted = TRUE],
          ChatCompletionResponseEvent("complete", TextDelta(""), "out_of_tokens"),
          "yield_complete")

\* lines 735-737: the async for loop ends because vllm_result is exhausted
StreamExhausted(st) ==
    Raise([st EXCEPT !.exhausted = TRUE],
          "ValueError: vLLM event stream ended without [DONE] message.")

VllmStreamEnd ==
    /\ vllm.pc = "await_chunk"
    /\ vllm' = StreamExhausted(vllm)
    /\ UNCHANGED <<groq, meta, streams, telemetry, registry, eval>>

InitVllm ==
    /\ vllm = VllmNew
    /\ groq = EmptyDict
    /\ meta = EmptyDict
    /\ streams = EmptyDict
    /\ telemetry = EmptyDict
    /\ registry = EmptyDict
    /\ eval = EmptyDict

NextVllm ==
    \/ VllmStart
    \/ VllmResume
    \/ VllmNextChunk
    \/ VllmStreamEnd

SpecVllm == InitVllm /\ [][NextVllm]_vars

-----------------------------------------------------------------------------
(* Early cancellation of _convert_streaming_results: the consumer stops     *)
(* iterating and the generator is closed where it is suspended.  The        *)
(* function has no try, finally or except around its yields and its await,  *)
(* so closing it runs no code of it; its locals are dropped.                *)

\* Cancel with the slip of a cleanup that flushes the first buffered call as
\* it stands
Cancel_FlushesPending(st) ==
    IF st.index_to_tool_call = <<>>
        THEN [st EXCEPT !.pc = "cancelled"]
        ELSE Yield(st,
                   ChatCompletionResponseEvent(
                       "progress",
                       ToolCallDelta(st.index_to_tool_call[1].value, "succeeded"),
                       st.converted_stop_reason),
                   "cancelled")

Cancel(st) == [st EXCEPT !.pc = "cancelled"]

\* the generator is closed before its complete event: at one of its earlier
\* yields, or while it awaits the next chunk
VllmCancel ==
    /\ vllm.pc \in {"yield_start", "yield_text", "yield_tool_call", "await_chunk"}
    /\ vllm' = Cancel(vllm)
    /\ UNCHANGED <<groq, meta, streams, telemetry, registry, eval>>

NextVllmCancel ==
    \/ NextVllm
    \/ VllmCancel

SpecVllmCancel == InitVllm /\ [][NextVllmCancel]_vars

-----------------------------------------------------------------------------
(* convert_chat_completion_response_stream (Groq) *)

GroqChunk(content, finish_reason) ==
    [choices |-> <<[finish_reason |-> finish_reason, delta |-> [content |-> content]]>>]

GroqChunks ==
    {GroqChunk(c, f) : c \in {None, "a", "b"},
                       f \in {None, "stop", "length", "tool_calls", "content_filter"}}

\* The result of a call that may raise.
Returned(value) == [raised |-> "none", value |-> value]
Raised(exception) == [raised |-> exception, value |-> None]

_map_finish_reason_to_stop_reason(finish_reason) ==
    IF finish_reason = "stop" THEN Returned("end_of_turn")
    ELSE IF finish_reason = "length" THEN Returned("end_of_message")
    ELSE IF finish_reason = "tool_calls"
        THEN Raised("NotImplementedError: tool_calls is not supported yet")
    ELSE Raised("ValueError: Invalid finish reason")

\* Python's truth value of an optional string, and  x or ""
Truthy(x) == x /= None /\ x /= ""
OrEmpty(x) == IF Truthy(x) THEN x ELSE ""

GroqNew ==
    [pc |-> "for_chunk",
     raised |-> "none",
     stop_reason |-> Unbound,
     event_types |-> "start",     \* what next(event_types) returns
     out |-> <<>>,                \* the events yielded so far
     chunks |-> <<>>,             \* the chunks pulled from stream so far
     exhausted |-> FALSE]         \* stream has ended

\* GroqProcessChunk with the slip of yielding an empty delta in the start
\* event, which loses the content of the first chunk
GroqProcessChunk_EmptyStart(st, chunk) ==
    LET s0 == [st EXCEPT !.chunks = Append(@, chunk)]
        choice == chunk["choices"][1]
        mapped == _map_finish_reason_to_stop_reason(choice["finish_reason"])
    IN  IF Truthy(choice["finish_reason"]) /\ mapped.raised /= "none"
            THEN Raise(s0, mapped.raised)
        ELSE
            LET s1 == IF Truthy(choice["finish_reason"])
                         THEN [s0 EXCEPT !.stop_reason = mapped.value]
                         ELSE s0
            IN  Yield([s1 EXCEPT !.event_types = "progress"],
                      ChatCompletionResponseEvent(
                          st.event_types,
                          IF st.event_types = "start"
                              THEN ""
                              ELSE OrEmpty(choice["delta"]["content"]),
                          None),
                      "yield_chunk")

\* lines 139-153: one chunk of the stream, up to the yield or the raise
GroqProcessChunk(st, chunk) ==
    LET s0 == [st EXCEPT !.chunks = Append(@, chunk)]
        choice == chunk["choices"][1]
        mapped == _map_finish_reason_to_stop_reason(choice["finish_reason"])
    IN  IF Truthy(choice["finish_reason"]) /\ mapped.raised /= "none"
            THEN Raise(s0, mapped.raised)
        ELSE
            LET s1 == IF Truthy(choice["finish_reason"])
                         THEN [s0 EXCEPT !.stop_reason = mapped.value]
                         ELSE s0
            IN  Yield([s1 EXCEPT !.event_types = "progress"],
                      ChatCompletionResponseEvent(
                          st.event_types, OrEmpty(choice["delta"]["content"]), None),
                      "yield_chunk")

\* lines 155-162: the for loop has ended
GroqComplete(st) ==
    LET s0 == [st EXCEPT !.exhausted = TRUE]
    IN  IF st.stop_reason = Unbound
            THEN Raise(s0, "UnboundLocalError: stop_reason")
            ELSE Yield(s0,
                       ChatCompletionResponseEvent("complete", "", st.stop_reason),
                       "yield_complete")

GroqNextChunk ==
    /\ groq.pc = "for_chunk"
    /\ Len(groq.chunks) < MaxChunks
    /\ \E chunk \in GroqChunks : groq' = GroqProcessChunk(groq, chunk)
    /\ UNCHANGED <<vllm, meta, streams, telemetry, registry, eval>>

GroqStreamEnd ==
    /\ groq.pc = "for_chunk"
    /\ groq' = GroqComplete(groq)
    /\ UNCHANGED <<vllm, meta, streams, telemetry, registry, eval>>

GroqResume ==
    /\ groq.pc \in {"yield_chunk", "yield_complete"}
    /\ groq' = [groq EXCEPT !.pc = IF groq.pc = "yield_chunk" THEN "for_chunk"
                                                              ELSE "returned"]
    /\ UNCHANGED <<vllm, meta, streams, telemetry, registry, eval>>

InitGroq ==
    /\ groq = GroqNew
    /\ vllm = EmptyDict
    /\ meta = EmptyDict
    /\ streams = EmptyDict
    /\ telemetry = EmptyDict
    /\ registry = EmptyDict
    /\ eval = EmptyDict

NextGroq ==
    \/ GroqNextChunk
    \/ GroqStreamEnd
    \/ GroqResume

SpecGroq == InitGroq /\ [][NextGroq]_vars

-----------------------------------------------------------------------------
(* Properties of _convert_streaming_results and of the Groq converter *)

StopReasons == {"end_of_turn", "end_of_message", "out_of_tokens"}

Last(seq) == seq[Len(seq)]

\* the terminal marker has been pulled from vllm_result
DonePulled == vllm.chunks /= <<>> /\ Last(vllm.chunks) = DoneChunk

IsComplete(event) == event.event_type = "complete"

IsToolCallEvent(event) == event.event_type = "progress" /\ event.delta.type = "tool_call"

\* C1: whenever the raw chunk sequence ends with the terminal marker "[DONE]",
\* the events emitted are one start event with an empty text delta, then
\* progress events only, then one complete event.
C1_StartProgressComplete ==
    DonePulled =>
        LET out == vllm.out
            n == Len(out)
        IN  /\ n >= 2
            /\ out[1].event_type = "start"
            /\ out[1].delta = TextDelta("")
            /\ out[n].event_type = "complete"
            /\ \A i \in 2..(n - 1) : out[i].event_type = "progress"

\* C2: N >= 0 text-only chunks followed by the terminal marker yield exactly
\* 1 + N + 1 events: start, one text progress event per chunk with the
\* chunk's content, in arrival order, and complete.
C2_TextStreamEventCount ==
    LET chunks == vllm.chunks
        N == Len(chunks) - 1
        out == vllm.out
    IN  (DonePulled /\ \A i \in 1..N : chunks[i] \in TextChunks) =>
            /\ Len(out) = 1 + N + 1
            /\ out[1].event_type = "start"
            /\ \A i \in 1..N :
                /\ out[1 + i].event_type = "progress"
                /\ out[1 + i].delta =
                       TextDelta(chunks[i].data_str.json["choices"][1]["delta"]["content"])
            /\ out[1 + N + 1].event_type = "complete"

\* the chunks of a Groq stream are the N >= 1 text chunks of C3: the last
\* carries finish reason stop or length, the others none, stop or length
GroqTextStream ==
    LET chunks == groq.chunks
        N == Len(chunks)
    IN  /\ groq.exhausted
        /\ N >= 1
        /\ chunks[N]["choices"][1]["finish_reason"] \in {"stop", "length"}
        /\ \A i \in 1..N : chunks[i]["choices"][1]["finish_reason"] \in {None, "stop", "length"}

GroqContent(i) == OrEmpty(groq.chunks[i]["choices"][1]["delta"]["content"])

\* C3 as claimed: a Groq stream of N text chunks, the last with a finish
\* reason, yields 1 + N + 1 events: a start event with an empty delta, one
\* progress event per chunk with the chunk's content, and a complete event.
C3_GroqStartPlusNPlusComplete ==
    GroqTextStream =>
        LET N == Len(groq.chunks)
            out == groq.out
        IN  /\ Len(out) = 1 + N + 1
            /\ out[1].event_type = "start" /\ out[1].delta = ""
            /\ \A i \in 1..N :
                out[1 + i].event_type = "progress" /\ out[1 + i].delta = GroqContent(i)
            /\ out[1 + N + 1].event_type = "complete"

\* C3 (amended): a Groq stream of N >= 1 text chunks, the last with finish
\* reason stop or length, yields exactly N + 1 events: the first chunk is the
\* start event and carries that chunk's content, every later chunk is a
\* progress event with its content, and one complete event with an empty
\* delta ends the sequence.
C3_GroqFirstChunkIsStart ==
    GroqTextStream =>
        LET N == Len(groq.chunks)
            out == groq.out
        IN  /\ groq.pc \in {"yield_complete", "returned"}
            /\ Len(out) = N + 1
            /\ \A i \in 1..N :
                /\ out[i].event_type = (IF i = 1 THEN "start" ELSE "progress")
                /\ out[i].delta = GroqContent(i)
            /\ out[N + 1].event_type = "complete" /\ out[N + 1].delta = ""

\* a Groq stream of two chunks with content, converted to its end
C3_Witness ==
    /\ GroqTextStream
    /\ groq.pc = "returned"
    /\ Len(groq.chunks) = 2
    /\ GroqContent(1) = "a" /\ GroqContent(2) = "b"

\* C4: when vllm_result ends and "[DONE]" was never delivered, the generator
\* raises the ValueError of line 737; the events yielded before stand and no
\* complete event is among them.
C4_UnterminatedStreamRaises ==
    vllm.exhausted =>
        /\ vllm.pc = "raised"
        /\ vllm.raised = "ValueError: vLLM event stream ended without [DONE] message."
        /\ \A i \in 1..Len(vllm.chunks) : vllm.chunks[i] /= DoneChunk
        /\ vllm.out /= <<>> /\ vllm.out[1].event_type = "start"
        /\ \A i \in 1..Len(vllm.out) : ~IsComplete(vllm.out[i])

\* the provider stream has ended after a text event and a tool call event
C4_Witness ==
    /\ vllm.exhausted
    /\ \E i \in 1..Len(vllm.out) : IsToolCallEvent(vllm.out[i])
    /\ \E i \in 1..Len(vllm.out) :
        vllm.out[i].event_type = "progress" /\ vllm.out[i].delta.type = "text"

\* C5: every complete event carries a canonical stop reason, never None.
C5_CompleteHasStopReason ==
    \A i \in 1..Len(vllm.out) :
        IsComplete(vllm.out[i]) => vllm.out[i].stop_reason \in StopReasons

\* the tool call fragments that a raw chunk hands to the accumulator
ChunkFragments(chunk_str) ==
    IF chunk_str \in ToolCallsChunks
        THEN chunk_str.data_str.json["choices"][1]["delta"]["tool_calls"]
        ELSE <<>>

\* the fragments of chunks[from..to], in arrival order
RECURSIVE Fragments(_, _, _)
Fragments(chunks, from, to) ==
    IF from > to THEN <<>>
    ELSE Fragments(chunks, from, to - 1) \o ChunkFragments(chunks[to])

\* the call indices of a fragment sequence, each once, in first-seen order
RECURSIVE FirstSeen(_)
FirstSeen(fragments) ==
    IF fragments = <<>> THEN <<>>
    ELSE LET before == FirstSeen(SubSeq(fragments, 1, Len(fragments) - 1))
             index == Last(fragments)["index"]
         IN  IF \E j \in 1..Len(before) : before[j] = index
                 THEN before
                 ELSE Append(before, index)

\* the argument pieces of the fragments addressed to index, concatenated in
\* arrival order
RECURSIVE ArgumentsOf(_, _)
ArgumentsOf(index, fragments) ==
    IF fragments = <<>> THEN <<>>
    ELSE LET tc == Last(fragments)
             piece == IF /\ tc["index"] = index
                         /\ "function" \in DOMAIN tc
                         /\ "arguments" \in DOMAIN tc["function"]
                         THEN tc["function"]["arguments"]
                         ELSE <<>>
         IN  ArgumentsOf(index, SubSeq(fragments, 1, Len(fragments) - 1)) \o piece

\* the events that report call index: the successful decodings of its record
ReportsOf(index) ==
    {j \in 1..Len(vllm.decoded) :
        vllm.decoded[j].index = index /\ vllm.decoded[j].event > 0}

\* C6: once the complete event is emitted, every call index that received a
\* fragment has been reported by exactly one tool call event, whatever the
\* finish reason of the stream.
C6_EveryCallReportedOnce ==
    (\E i \in 1..Len(vllm.out) : IsComplete(vllm.out[i])) =>
        LET seen == FirstSeen(Fragments(vllm.chunks, 1, Len(vllm.chunks)))
        IN  \A j \in 1..Len(seen) : Cardinality(ReportsOf(seen[j])) = 1

\* C7: an argument string that is not valid JSON does not abort the stream:
\* the call is reported by an event of parse status failed.
C7_ParseFailureInBand ==
    \A j \in 1..Len(vllm.decoded) :
        ~json_loads(vllm.decoded[j].arguments_str).ok =>
            /\ vllm.pc /= "raised"
            /\ \E i \in 1..Len(vllm.out) :
                IsToolCallEvent(vllm.out[i]) /\ vllm.out[i].delta.parse_status = "failed"

PreviousFinalization(j) ==
    LET earlier == {h \in 1..(j - 1) : vllm.decoded[h].index = vllm.decoded[j].index}
    IN  IF earlier = {} THEN 0
        ELSE vllm.decoded[CHOOSE h \in earlier : \A g \in earlier : g <= h].chunk

PassStart(j) ==
    CHOOSE h \in 1..j :
        /\ vllm.decoded[h].chunk = vllm.decoded[j].chunk
        /\ \A g \in 1..j : vllm.decoded[g].chunk = vllm.decoded[j].chunk => h <= g

\* C9: the finalized tool call events are emitted in the order in which
\* their call indices were first seen in the fragment stream, not in numeric
\* order: a finalization pass goes through the indices in first-seen order,
\* its events are emitted in that order, and when the event of an index is
\* emitted every index seen before it has been reported already.
C9_FirstSeenOrder ==
    \A j \in 1..Len(vllm.decoded) :
        LET call == vllm.decoded[j]
            seen == FirstSeen(Fragments(vllm.chunks, 1, call.chunk))
            nth == j - PassStart(j) + 1
        IN  /\ nth <= Len(seen)
            /\ call.index = seen[nth]
            /\ \A h \in 1..(j - 1) :
                (vllm.decoded[h].event > 0 /\ call.event > 0) =>
                    vllm.decoded[h].event < call.event
            /\ call.event > 0 =>
                   \A n \in 1..(nth - 1) :
                       \E h \in 1..(j - 1) :
                           /\ vllm.decoded[h].index = seen[n]
                           /\ vllm.decoded[h].event > 0
                           /\ vllm.decoded[h].event < call.event

\* index 1 was seen before index 0, and its call is reported first
C9_Witness ==
    \E h, j \in 1..Len(vllm.decoded) :
        /\ h < j
        /\ vllm.decoded[h].chunk = vllm.decoded[j].chunk
        /\ vllm.decoded[h].index = 1 /\ vllm.decoded[j].index = 0
        /\ vllm.decoded[h].event > 0 /\ vllm.decoded[j].event > 0

\* C10 as claimed: once a fragment of a call index has been taken in, an
\* event of parse status started has been emitted.
C10_StartedEventOnFirstFragment ==
    (vllm.pc /= "raised" /\ Fragments(vllm.chunks, 1, Len(vllm.chunks)) /= <<>>) =>
        \E i \in 1..Len(vllm.out) :
            IsToolCallEvent(vllm.out[i]) /\ vllm.out[i].delta.parse_status = "started"

\* C10 (amended): a chunk of tool call fragments, first or later ones of their
\* indices, that does not carry finish reason tool_calls causes no event; the
\* only tool call events are those of finalization, of parse status succeeded,
\* and none has parse status started.
C10_NoEventForFragments ==
    [][ /\ (/\ Len(vllm'.chunks) = Len(vllm.chunks) + 1
            /\ Last(vllm'.chunks) \in ToolCallsChunks
            /\ Last(vllm'.chunks).data_str.json["choices"][1]["finish_reason"] /= "tool_calls")
           => (vllm'.out = vllm.out /\ vllm'.pc = "await_chunk")
        /\ \A i \in 1..Len(vllm'.out) :
            IsToolCallEvent(vllm'.out[i]) =>
                /\ vllm'.out[i].delta.parse_status = "succeeded"
                /\ \E j \in 1..Len(vllm'.decoded) : vllm'.decoded[j].event = i
      ]_vars

\* fragments of both indices are buffered and nothing but the start event has
\* been emitted
C10_Witness ==
    /\ vllm.pc = "await_chunk"
    /\ Len(FirstSeen(Fragments(vllm.chunks, 1, Len(vllm.chunks)))) = 2
    /\ Len(vllm.out) = 1

-----------------------------------------------------------------------------
(* Malformed chunks and stop reasons *)

\* the raw chunks that are neither a text delta, nor a tool call delta, nor
\* the terminal marker
MalformedChunks == {UnframedChunk, NotJsonChunk, EmptyDeltaChunk}

\* C11: a raw chunk that is neither a text delta, nor a tool call delta, nor
\* the terminal marker makes the generator raise: the step that takes the
\* chunk in yields nothing, so the events emitted before it stand, and once
\* the generator has raised it takes no further step, so no event, and no
\* complete event, follows.
C11_MalformedChunkFailsStream ==
    [][ /\ (/\ Len(vllm'.chunks) = Len(vllm.chunks) + 1
            /\ Last(vllm'.chunks) \in MalformedChunks)
           => /\ vllm'.pc = "raised"
              /\ vllm'.raised \in {"ValueError: Can't parse result string from vLLM",
                                   "JSONDecodeError",
                                   "ValueError: Don't know how to parse event delta"}
              /\ vllm'.out = vllm.out
              /\ \A i \in 1..Len(vllm'.out) : ~IsComplete(vllm'.out[i])
        /\ vllm.pc = "raised" => vllm' = vllm
      ]_vars

\* a delta record with neither content nor tool calls arrives after a text
\* event and a tool call event, which stand
C11_Witness ==
    /\ vllm.pc = "raised"
    /\ vllm.chunks /= <<>>
    /\ Last(vllm.chunks) = EmptyDeltaChunk
    /\ Len(vllm.out) = 3
    /\ IsToolCallEvent(vllm.out[3])

\* the finish reason of the i-th chunk of the Groq stream
GroqFinishReason(i) == groq.chunks[i]["choices"][1]["finish_reason"]

\* C12: both resolvers map finish reason stop to end_of_turn and length to
\* out_of_tokens; for the Groq converter, the stop reason held after a chunk
\* with finish reason stop is end_of_turn and after one with length is
\* out_of_tokens.
C12_StopAndLength ==
    /\ _convert_finish_reason("stop") = "end_of_turn"
    /\ _convert_finish_reason("length") = "out_of_tokens"
    /\ (groq.chunks /= <<>> /\ GroqFinishReason(Len(groq.chunks)) = "stop")
           => groq.stop_reason = "end_of_turn"
    /\ (groq.chunks /= <<>> /\ GroqFinishReason(Len(groq.chunks)) = "length")
           => groq.stop_reason = "out_of_tokens"

\* C13: finish reason tool_calls resolves to end_of_message or end_of_turn:
\* every finalized tool call event, and the complete event of a stream whose
\* last finish reason was tool_calls, carries one of the two, never
\* out_of_tokens.
C13_ToolCallsStopReason ==
    \A i \in 1..Len(vllm.out) :
        (\/ IsToolCallEvent(vllm.out[i])
         \/ IsComplete(vllm.out[i]) /\ vllm.finish_reason = "tool_calls")
            => vllm.out[i].stop_reason \in {"end_of_message", "end_of_turn"}

\* the finish reasons that the providers enumerate
FinishReasons == {"stop", "length", "tool_calls"}

\* C14: a finish reason outside the enumerated vocabulary makes the resolver
\* fail; it is never mapped to a stop reason, and the stream that carried it
\* ends without a complete event.
C14_UnknownFinishReasonRaises ==
    (vllm.finish_reason \notin {Unbound, None} \cup FinishReasons) =>
        /\ vllm.pc = "raised"
        /\ vllm.converted_stop_reason \notin StopReasons
        /\ \A i \in 1..Len(vllm.out) : ~IsComplete(vllm.out[i])

\* C16: when the Groq stream closes and no chunk carried a finish reason (the
\* empty stream included), the converter ends with a complete event whose
\* stop reason is out_of_tokens.
C16_GroqDefaultsToOutOfTokens ==
    (groq.exhausted /\ \A i \in 1..Len(groq.chunks) : ~Truthy(GroqFinishReason(i))) =>
        /\ groq.pc \in {"yield_complete", "returned"}
        /\ IsComplete(Last(groq.out))
        /\ Last(groq.out).stop_reason = "out_of_tokens"

-----------------------------------------------------------------------------
(* Events per raw chunk.  The events of a chunk are those yielded from the  *)
(* step that pulls it up to the step that pulls the next one: at most one   *)
(* in the pulling step, the others in the resumptions that follow it.       *)

\* the step pulls a chunk from vllm_result
PullsChunk == Len(vllm'.chunks) = Len(vllm.chunks) + 1

\* the step resumes the generator in the body of the loop, and the generator
\* yields again without pulling a chunk: a further event of the chunk in hand
YieldsAgain ==
    /\ vllm.pc \in {"yield_text", "yield_tool_call"}
    /\ vllm'.chunks = vllm.chunks
    /\ vllm'.out /= vllm.out

\* C17 as claimed: a raw chunk causes at most one event, except the terminal
\* chunk, which causes the finalized tool call events and then the complete
\* event.
C17_OnlyTerminalChunkEmitsMany ==
    [][ /\ PullsChunk => Len(vllm'.out) <= Len(vllm.out) + 1
        /\ YieldsAgain => Last(vllm.chunks) = DoneChunk
      ]_vars

\* C17 (amended): the step that pulls a raw chunk yields at most one event,
\* and the terminal chunk causes exactly one, the complete event.  A chunk
\* causes further events only when its finish reason is tool_calls: each of
\* them is one succeeded tool call event, the k-th reporting the k-th entry
\* of the accumulator, and the next chunk is pulled only after the last
\* entry was reported.  The complete event is yielded for the terminal chunk
\* only.
C17_BurstOnToolCallsFinish ==
    [][ /\ PullsChunk => Len(vllm'.out) <= Len(vllm.out) + 1
        /\ (PullsChunk /\ Last(vllm'.chunks) = DoneChunk /\ vllm'.pc /= "raised")
               => vllm'.out = Append(vllm.out, Last(vllm'.out)) /\ IsComplete(Last(vllm'.out))
        /\ (vllm.chunks /= <<>> /\ Last(vllm.chunks) = DoneChunk) => vllm'.out = vllm.out
        /\ YieldsAgain =>
               /\ vllm.finish_reason = "tool_calls"
               /\ vllm'.out = Append(vllm.out, Last(vllm'.out))
               /\ IsToolCallEvent(Last(vllm'.out))
               /\ Last(vllm'.out).delta.parse_status = "succeeded"
               /\ vllm'.k = (IF vllm.pc = "yield_text" THEN 1 ELSE vllm.k + 1)
               /\ Last(vllm'.out).delta.content = vllm'.index_to_tool_call[vllm'.k].value
        /\ (vllm.pc = "yield_tool_call" /\ vllm'.pc = "await_chunk")
               => vllm.k = Len(vllm.index_to_tool_call)
        /\ (vllm'.out /= vllm.out /\ IsComplete(Last(vllm'.out)))
               => PullsChunk /\ Last(vllm'.chunks) = DoneChunk
      ]_vars

\* a text chunk with finish reason tool_calls has caused three events: its
\* text event and the events of two buffered calls
C17_Witness ==
    /\ vllm.pc = "yield_tool_call"
    /\ vllm.k = 2
    /\ Last(vllm.chunks) \in TextChunks
    /\ Len(vllm.out) = 4

-----------------------------------------------------------------------------
(* Early cancellation *)

\* C18: when the consumer stops iterating before the complete event, every
\* tool call event delivered up to then carries a call whose arguments were
\* decoded by json.loads from the whole argument string accumulated for its
\* index, and no record with an undecoded argument string; after the
\* cancellation the generator takes no step, so no finalization runs.
C18_NoPartialCallOnCancellation ==
    /\ [](vllm.pc = "cancelled" =>
            \A i \in 1..Len(vllm.out) :
                IsToolCallEvent(vllm.out[i]) =>
                    /\ vllm.out[i].delta.parse_status = "succeeded"
                    /\ "arguments_str" \notin DOMAIN vllm.out[i].delta.content
                    /\ \E j \in 1..Len(vllm.decoded) :
                        LET call == vllm.decoded[j]
                        IN  /\ call.event = i
                            /\ call.arguments_str =
                                   ArgumentsOf(call.index,
                                               Fragments(vllm.chunks,
                                                         PreviousFinalization(j) + 1,
                                                         call.chunk))
                            /\ json_loads(call.arguments_str).ok
                            /\ vllm.out[i].delta.content["arguments"] =
                                   json_loads(call.arguments_str).value)
    /\ [][vllm.pc = "cancelled" => vllm' = vllm]_vars

\* the consumer stopped after a tool call event was delivered and while the
\* fragments of another call were buffered
C18_Witness ==
    /\ vllm.pc = "cancelled"
    /\ \E i \in 1..Len(vllm.out) : IsToolCallEvent(vllm.out[i])
    /\ \E k \in 1..Len(vllm.index_to_tool_call) :
        "arguments_str" \in DOMAIN vllm.index_to_tool_call[k].value

-----------------------------------------------------------------------------
(* ModelInferenceImpl.chat_completion (meta-reference).  The texts of the   *)
(* generated tokens are the special tokens and one ordinary text; buffer,   *)
(* a string built by concatenation, is the sequence of the texts appended.  *)
(* delta is a str or a ToolCallDelta: the str is the record TextDelta.      *)

\* Longest token sequence that is explored.
MaxTokens == 3

python_tag == "<|python_tag|>"
eot_id == "<|eot_id|>"
eom_id == "<|eom_id|>"

TokenTexts == {python_tag, eot_id, eom_id, "a"}

\* message.tool_calls as decode_assistant_message may return it
ToolCall(call_id) ==
    [call_id |-> call_id, tool_name |-> "get_boiling_point",
     arguments |-> [type |-> "dict", int |-> 0]]

DecodedToolCalls == {<<>>, <<ToolCall("c0")>>, <<ToolCall("c0"), ToolCall("c1")>>}

MetaYields ==
    {"yield_start", "yield_started", "yield_progress", "yield_failure",
     "yield_success", "yield_complete", "yield_response"}

MetaNew(stream) ==
    [pc |-> "start",
     stream |-> stream,           \* request.stream
     tokens |-> <<>>,
     stop_reason |-> None,
     buffer |-> <<>>,
     ipython |-> FALSE,
     tool_calls |-> <<>>,         \* message.tool_calls, once decoded
     k |-> 0,                     \* position of the loop over message.tool_calls
     out |-> <<>>,                \* the chunks yielded so far
     exhausted |-> FALSE]         \* the token generator has ended

\* buffer.startswith("<|python_tag|>")
StartsWithPythonTag(buffer) == buffer /= <<>> /\ Head(buffer) = python_tag

\* MetaProcessToken with the slip of a delta that does not look at ipython:
\* the text of a token is always a plain text delta
MetaProcessToken_AlwaysText(st, text) ==
    LET s0 == [st EXCEPT !.buffer = Append(@, text), !.tokens = Append(@, text)]
    IN  IF ~st.ipython /\ StartsWithPythonTag(s0.buffer)
            THEN Yield([s0 EXCEPT !.ipython = TRUE],
                       ChatCompletionResponseEvent(
                           "progress", ToolCallDelta("", "started"), None),
                       "yield_started")
        ELSE IF ~st.stream
            THEN s0
        ELSE
            LET stop_reason == IF text = eot_id THEN "end_of_turn"
                               ELSE IF text = eom_id THEN "end_of_message"
                               ELSE st.stop_reason
                shown == IF text \in {eot_id, eom_id} THEN "" ELSE text
            IN  Yield([s0 EXCEPT !.stop_reason = stop_reason],
                      ChatCompletionResponseEvent("progress", TextDelta(shown), stop_reason),
                      "yield_progress")

\* lines 64-109: one token of the generator, up to the next yield or to the
\* continue of a request that does not stream
MetaProcessToken(st, text) ==
    LET s0 == [st EXCEPT !.buffer = Append(@, text), !.tokens = Append(@, text)]
    IN  IF ~st.ipython /\ StartsWithPythonTag(s0.buffer)
            THEN Yield([s0 EXCEPT !.ipython = TRUE],
                       ChatCompletionResponseEvent(
                           "progress", ToolCallDelta("", "started"), None),
                       "yield_started")
        ELSE IF ~st.stream
            THEN s0
        ELSE
            LET stop_reason == IF text = eot_id THEN "end_of_turn"
                               ELSE IF text = eom_id THEN "end_of_message"
                               ELSE st.stop_reason
                shown == IF text \in {eot_id, eom_id} THEN "" ELSE text
                delta == IF st.ipython THEN ToolCallDelta(shown, "in_progress")
                                       ELSE TextDelta(shown)
            IN  Yield([s0 EXCEPT !.stop_reason = stop_reason],
                      ChatCompletionResponseEvent("progress", delta, stop_reason),
                      "yield_progress")

\* DefaultStopReason with the slip of taking a missing stop token for the end
\* of the turn
DefaultStopReason_EndOfTurn(stop_reason) ==
    IF stop_reason = None THEN "end_of_turn" ELSE stop_reason

\* lines 111-112
DefaultStopReason(stop_reason) ==
    IF stop_reason = None THEN "out_of_tokens" ELSE stop_reason

\* MetaToolCalls with the slip of tool call events that carry no stop reason
MetaToolCalls_NoStopReason(st, k) ==
    IF k > Len(st.tool_calls)
        THEN Yield([st EXCEPT !.k = 0],
                   ChatCompletionResponseEvent("complete", TextDelta(""), st.stop_reason),
                   "yield_complete")
        ELSE Yield([st EXCEPT !.k = k],
                   ChatCompletionResponseEvent(
                       "progress", ToolCallDelta(st.tool_calls[k], "success"), None),
                   "yield_success")

\* lines 131-149: the loop over message.tool_calls, entered at its k-th call,
\* and the complete event after it
MetaToolCalls(st, k) ==
    IF k > Len(st.tool_calls)
        THEN Yield([st EXCEPT !.k = 0],
                   ChatCompletionResponseEvent("complete", TextDelta(""), st.stop_reason),
                   "yield_complete")
        ELSE Yield([st EXCEPT !.k = k],
                   ChatCompletionResponseEvent(
                       "progress", ToolCallDelta(st.tool_calls[k], "success"),
                       st.stop_reason),
                   "yield_success")

\* MetaFinish with the slip of a failure event that does not look at the
\* decoded tool calls
MetaFinish_FailureWheneverIpython(st, tool_calls) ==
    LET s0 == [st EXCEPT !.exhausted = TRUE,
                         !.stop_reason = DefaultStopReason(@),
                         !.tool_calls = tool_calls]
    IN  IF ~st.stream
            THEN Yield(s0,
                       [tool_calls |-> tool_calls, stop_reason |-> s0.stop_reason],
                       "yield_response")
        ELSE IF st.ipython
            THEN Yield(s0,
                       ChatCompletionResponseEvent(
                           "progress", ToolCallDelta("", "failure"), s0.stop_reason),
                       "yield_failure")
        ELSE MetaToolCalls(s0, 1)

\* lines 111-158: the token generator has ended; tool_calls is what
\* decode_assistant_message found in the tokens
MetaFinish(st, tool_calls) ==
    LET s0 == [st EXCEPT !.exhausted = TRUE,
                         !.stop_reason = DefaultStopReason(@),
                         !.tool_calls = tool_calls]
    IN  IF ~st.stream
            THEN Yield(s0,
                       [tool_calls |-> tool_calls, stop_reason |-> s0.stop_reason],
                       "yield_response")
        ELSE IF st.ipython /\ tool_calls = <<>>
            THEN Yield(s0,
                       ChatCompletionResponseEvent(
                           "progress", ToolCallDelta("", "failure"), s0.stop_reason),
                       "yield_failure")
        ELSE MetaToolCalls(s0, 1)

\* the generator resumed at the yield it is suspended at
MetaResumed(st) ==
    CASE st.pc = "yield_start" -> [st EXCEPT !.pc = "for_token"]
      [] st.pc = "yield_started" -> [st EXCEPT !.buffer = Tail(@), !.pc = "for_token"]
      [] st.pc = "yield_progress" -> [st EXCEPT !.pc = "for_token"]
      [] st.pc = "yield_failure" -> MetaToolCalls(st, 1)
      [] st.pc = "yield_success" -> MetaToolCalls(st, st.k + 1)
      [] st.pc \in {"yield_complete", "yield_response"} -> [st EXCEPT !.pc = "returned"]

\* lines 42-47
MetaStart ==
    /\ meta.pc = "start"
    /\ meta' = Yield(meta,
                     ChatCompletionResponseEvent("start", TextDelta(""), None),
                     "yield_start")
    /\ UNCHANGED <<vllm, groq, streams, telemetry, registry, eval>>

MetaResume ==
    /\ meta.pc \in MetaYields
    /\ meta' = MetaResumed(meta)
    /\ UNCHANGED <<vllm, groq, streams, telemetry, registry, eval>>

MetaNextToken ==
    /\ meta.pc = "for_token"
    /\ Len(meta.tokens) < MaxTokens
    /\ \E text \in TokenTexts : meta' = MetaProcessToken(meta, text)
    /\ UNCHANGED <<vllm, groq, streams, telemetry, registry, eval>>

MetaTokensEnd ==
    /\ meta.pc = "for_token"
    /\ \E tool_calls \in DecodedToolCalls : meta' = MetaFinish(meta, tool_calls)
    /\ UNCHANGED <<vllm, groq, streams, telemetry, registry, eval>>

InitMeta ==
    /\ meta \in {MetaNew(stream) : stream \in BOOLEAN}
    /\ vllm = EmptyDict
    /\ groq = EmptyDict
    /\ streams = EmptyDict
    /\ telemetry = EmptyDict
    /\ registry = EmptyDict
    /\ eval = EmptyDict

NextMeta ==
    \/ MetaStart
    \/ MetaResume
    \/ MetaNextToken
    \/ MetaTokensEnd

SpecMeta == InitMeta /\ [][NextMeta]_vars

\* the consumer iterates the generator to its end (the async for of the
\* caller), and generator.chat_completion ends after max_gen_len tokens
SpecMetaLive == SpecMeta /\ WF_vars(NextMeta)

\* the stop reason of the last stop token among tokens, None when there is
\* none
RECURSIVE LastStopToken(_)
LastStopToken(tokens) ==
    IF tokens = <<>> THEN None
    ELSE IF Last(tokens) = eot_id THEN "end_of_turn"
    ELSE IF Last(tokens) = eom_id THEN "end_of_message"
    ELSE LastStopToken(SubSeq(tokens, 1, Len(tokens) - 1))

\* C15: in a streaming run, the complete event carries out_of_tokens when the
\* token generator ended without an <|eot_id|> or <|eom_id|> token, and
\* otherwise the stop reason of the last such token.
C15_CompleteStopReason ==
    meta.stream =>
        /\ \A i \in 1..Len(meta.out) :
            IsComplete(meta.out[i]) =>
                /\ meta.exhausted
                /\ meta.out[i].stop_reason =
                       (IF LastStopToken(meta.tokens) = None
                            THEN "out_of_tokens"
                            ELSE LastStopToken(meta.tokens))
        /\ meta.pc = "returned" => IsComplete(Last(meta.out))

\* a stream with both stop tokens, <|eom_id|> before <|eot_id|>, has been
\* completed with end_of_turn
C15_Witness ==
    /\ meta.stream
    /\ meta.pc = "returned"
    /\ meta.tokens = <<"a", eom_id, eot_id>>
    /\ Last(meta.out).stop_reason = "end_of_turn"

-----------------------------------------------------------------------------
(* Two runs of _convert_streaming_results side by side, as for two chat     *)
(* completions served at once.  Each call of the function has its own       *)
(* frame, so its own index_to_tool_call and outputs; the event loop runs    *)
(* one of the two from a suspension point to its next, in any order.        *)

\* Longest provider stream of each of the two runs.
MaxPairChunks == 2

Runs == {1, 2}

\* the raw chunks of the two streams: fragments of one call with and
\* without the finish reason that finalizes, text, and the terminal marker
PairChunks ==
    {ToolCallsChunk(<<TcArguments(0, <<"1">>)>>, None),
     ToolCallsChunk(<<TcArguments(0, <<"1">>)>>, "tool_calls"),
     TextChunk("a", None),
     TextChunk("a", "tool_calls"),
     DoneChunk}

\* Locals with the slip of an accumulator kept outside the function (on the
\* instance or the module): every run works on the dict of the first
Locals_SharedAccumulator(all, i) ==
    [all[i] EXCEPT !.index_to_tool_call = all[1].index_to_tool_call]

\* lines 622-634: the frame of run i
Locals(all, i) == all[i]

\* lines 638-644: the start event
Started(st) ==
    Yield(st, ChatCompletionResponseEvent("start", TextDelta(""), None), "yield_start")

PairStart ==
    /\ \E i \in Runs :
        /\ streams[i].pc = "start"
        /\ streams' = [streams EXCEPT ![i] = Started(Locals(streams, i))]
    /\ UNCHANGED <<vllm, groq, meta, telemetry, registry, eval>>

PairResume ==
    /\ \E i \in Runs :
        /\ streams[i].pc \in VllmYields
        /\ streams' = [streams EXCEPT ![i] = Resume(Locals(streams, i))]
    /\ UNCHANGED <<vllm, groq, meta, telemetry, registry, eval>>

PairNextChunk ==
    /\ \E i \in Runs :
        /\ streams[i].pc = "await_chunk"
        /\ Len(streams[i].chunks) < MaxPairChunks
        /\ \E chunk_str \in PairChunks :
            streams' = [streams EXCEPT ![i] = ProcessChunk(Locals(streams, i), chunk_str)]
    /\ UNCHANGED <<vllm, groq, meta, telemetry, registry, eval>>

PairStreamEnd ==
    /\ \E i \in Runs :
        /\ streams[i].pc = "await_chunk"
        /\ streams' = [streams EXCEPT ![i] = StreamExhausted(Locals(streams, i))]
    /\ UNCHANGED <<vllm, groq, meta, telemetry, registry, eval>>

InitPair ==
    /\ streams = <<VllmNew, VllmNew>>
    /\ vllm = EmptyDict
    /\ groq = EmptyDict
    /\ meta = EmptyDict
    /\ telemetry = EmptyDict
    /\ registry = EmptyDict
    /\ eval = EmptyDict

NextPair ==
    \/ PairStart
    \/ PairResume
    \/ PairNextChunk
    \/ PairStreamEnd

SpecPair == InitPair /\ [][NextPair]_vars

\* the run of the generator alone over the raw chunks chunks, ended when
\* exhausted, passes through the state target on its way from st
RECURSIVE AloneReaches(_, _, _, _)
AloneReaches(st, chunks, exhausted, target) ==
    IF st = target THEN TRUE
    ELSE IF st.pc = "start"
        THEN AloneReaches(Started(st), chunks, exhausted, target)
    ELSE IF st.pc \in VllmYields
        THEN AloneReaches(Resume(st), chunks, exhausted, target)
    ELSE IF st.pc = "await_chunk" /\ Len(st.chunks) < Len(chunks)
        THEN AloneReaches(ProcessChunk(st, chunks[Len(st.chunks) + 1]),
                          chunks, exhausted, target)
    ELSE IF st.pc = "await_chunk" /\ exhausted
        THEN AloneReaches(StreamExhausted(st), chunks, exhausted, target)
    ELSE FALSE

\* C19: however the steps of two concurrent runs are interleaved, the events
\* emitted by each, its accumulator and its position are those of a run alone
\* over its own raw chunks: nothing taken in by one run shows in the other.
C19_StreamsAreIsolated ==
    \A i \in Runs :
        AloneReaches(VllmNew, streams[i].chunks, streams[i].exhausted, streams[i])

\* the first run has buffered a fragment when the second run, which saw no
\* fragment, ends on finish reason tool_calls and the terminal marker with
\* no tool call event
C19_Witness ==
    /\ streams[1].pc = "await_chunk"
    /\ Len(streams[1].index_to_tool_call) = 1
    /\ streams[2].pc = "returned"
    /\ streams[2].chunks = <<TextChunk("a", "tool_calls"), DoneChunk>>
    /\ Len(streams[2].out) = 3

-----------------------------------------------------------------------------
(* Telemetry.query_spans.  query_traces and get_span_tree are methods of    *)
(* the provider: the traces and the span trees they return are inputs.  A   *)
(* value that may be None is a record with its type; an Optional field that *)
(* is None is a field that the record does not have.                        *)

\* Most traces that query_traces returns.
MaxTraces == 2

PyNone == [type |-> "NoneType"]
PyInt(n) == [type |-> "int", int |-> n]

\* str() of an attribute value
str(value) == IF value.type = "NoneType" THEN "None" ELSE ToString(value.int)

\* attributes_to_return of the call
AttributeLists == {<<>>, <<"input">>, <<"input", "output">>}

\* the trace_id of the trace whose root span is root_span_id: a string of
\* its own, never the id of a span
TraceIdOf(root_span_id) == MaxTraces + root_span_id

\* a span is known by its path from the root span, and belongs to the trace
\* of that root
SpanWithChildren(span_id, attributes, children) ==
    [span_id |-> span_id, trace_id |-> TraceIdOf(span_id[1]), name |-> "step",
     attributes |-> attributes, children |-> children]

\* a span whose attributes field is None
SpanWithoutAttributes(span_id, children) ==
    [span_id |-> span_id, trace_id |-> TraceIdOf(span_id[1]), name |-> "step",
     children |-> children]

\* the attribute maps of the spans of a tree with children
WithInput == [input |-> PyInt(1)]
AttributeMaps == {EmptyDict, WithInput}

\* the trees that get_span_tree may return for the root span root_span_id:
\* a single span, and a root with two children, the first with a child
SpanTrees(root_span_id) ==
    {SpanWithoutAttributes(<<root_span_id>>, <<>>)}
    \cup {SpanWithChildren(<<root_span_id>>, a, <<>>) :
              a \in {EmptyDict, WithInput, [input |-> PyNone],
                     [input |-> PyInt(1), output |-> PyInt(2)]}}
    \cup {SpanWithChildren(<<root_span_id>>, a,
              <<SpanWithChildren(<<root_span_id, 1>>, b,
                    <<SpanWithChildren(<<root_span_id, 1, 1>>, c, <<>>)>>),
                SpanWithChildren(<<root_span_id, 2>>, d, <<>>)>>) :
              a \in AttributeMaps, b \in AttributeMaps,
              c \in AttributeMaps, d \in AttributeMaps}

\* the lists of traces, each known by its root span, that query_traces may
\* return
RECURSIVE TraceLists(_)
TraceLists(n) ==
    IF n = 0 THEN {<<>>}
    ELSE LET shorter == TraceLists(n - 1)
         IN  shorter \cup
             {Append(l[1], [trace_id |-> TraceIdOf(l[2]), root_span_id |-> l[2]]) :
                 l \in {s \in shorter \X (1..MaxTraces) :
                            /\ Len(s[1]) = n - 1
                            /\ \A i \in 1..Len(s[1]) : s[1][i].root_span_id /= s[2]}}

\* Python's truth value of span.attributes
TruthyAttributes(span) == "attributes" \in DOMAIN span /\ DOMAIN span.attributes /= {}

\* lines 219-225
SpanRow(trace, span, attributes_to_return) ==
    [trace_id |-> trace.root_span_id,
     span_id |-> span.span_id,
     step_name |-> span.name,
     attrs |-> [i \in 1..Len(attributes_to_return) |->
                   [key |-> attributes_to_return[i],
                    value |-> str(span.attributes[attributes_to_return[i]])]]]

\* lines 213-231
RECURSIVE extract_spans(_, _, _)
RECURSIVE ExtendWithChildren(_, _, _, _)
ExtendWithChildren(rows, children, trace, attributes_to_return) ==
    IF children = <<>> THEN rows
    ELSE ExtendWithChildren(
             rows \o extract_spans(Head(children), trace, attributes_to_return),
             Tail(children), trace, attributes_to_return)

\* extract_spans with the slip of leaving out the subtree of a span that
\* gets no row
extract_spans_PrunesSubtree(span, trace, attributes_to_return) ==
    IF /\ TruthyAttributes(span)
       /\ \A i \in 1..Len(attributes_to_return) :
           /\ attributes_to_return[i] \in DOMAIN span.attributes
           /\ span.attributes[attributes_to_return[i]] /= PyNone
        THEN ExtendWithChildren(<<SpanRow(trace, span, attributes_to_return)>>,
                                span.children, trace, attributes_to_return)
        ELSE <<>>

extract_spans(span, trace, attributes_to_return) ==
    LET rows == IF /\ TruthyAttributes(span)
                   /\ \A i \in 1..Len(attributes_to_return) :
                       /\ attributes_to_return[i] \in DOMAIN span.attributes
                       /\ span.attributes[attributes_to_return[i]] /= PyNone
                    THEN <<SpanRow(trace, span, attributes_to_return)>>
                    ELSE <<>>
    IN  ExtendWithChildren(rows, span.children, trace, attributes_to_return)

TelemetryNew(attributes_to_return) ==
    [pc |-> "query_traces",
     attributes_to_return |-> attributes_to_return,
     traces |-> <<>>,
     span_trees |-> <<>>,         \* the trees that get_span_tree returned so far
     rows |-> <<>>]

\* line 202: query_traces returns
QueryTracesReturns ==
    /\ telemetry.pc = "query_traces"
    /\ \E traces \in TraceLists(MaxTraces) :
        telemetry' = [telemetry EXCEPT
                         !.traces = traces,
                         !.pc = IF traces = <<>> THEN "returned" ELSE "get_span_tree"]
    /\ UNCHANGED <<vllm, groq, meta, streams, registry, eval>>

\* lines 206-233: get_span_tree returns the tree of the next trace and its
\* rows are added
GetSpanTreeReturns ==
    /\ telemetry.pc = "get_span_tree"
    /\ LET trace == telemetry.traces[Len(telemetry.span_trees) + 1]
       IN  \E span_tree \in SpanTrees(trace.root_span_id) :
               telemetry' = [telemetry EXCEPT
                   !.span_trees = Append(@, span_tree),
                   !.rows = @ \o extract_spans(span_tree, trace,
                                               telemetry.attributes_to_return),
                   !.pc = IF Len(telemetry.span_trees) + 1 = Len(telemetry.traces)
                              THEN "returned" ELSE "get_span_tree"]
    /\ UNCHANGED <<vllm, groq, meta, streams, registry, eval>>

InitTelemetry ==
    /\ telemetry \in {TelemetryNew(attributes_to_return) :
                          attributes_to_return \in AttributeLists}
    /\ vllm = EmptyDict
    /\ groq = EmptyDict
    /\ meta = EmptyDict
    /\ streams = EmptyDict
    /\ registry = EmptyDict
    /\ eval = EmptyDict

NextTelemetry ==
    \/ QueryTracesReturns
    \/ GetSpanTreeReturns

SpecTelemetry == InitTelemetry /\ [][NextTelemetry]_vars

-----------------------------------------------------------------------------
(* Rows of query_spans *)

\* the spans of a tree in depth-first pre-order: a span before its
\* descendants, the children in the order of the child list
RECURSIVE PreOrder(_)
RECURSIVE PreOrderAll(_)
PreOrderAll(children) ==
    IF children = <<>> THEN <<>>
    ELSE PreOrder(Head(children)) \o PreOrderAll(Tail(children))

PreOrder(span) == <<span>> \o PreOrderAll(span.children)

\* the attributes of span contain every requested attribute, not null
HasAllAttributes(span, attributes_to_return) ==
    \A i \in 1..Len(attributes_to_return) :
        /\ "attributes" \in DOMAIN span
        /\ attributes_to_return[i] \in DOMAIN span.attributes
        /\ span.attributes[attributes_to_return[i]] /= PyNone

\* what identifies the span of a row
RowKey(trace_id, span_id) == [trace_id |-> trace_id, span_id |-> span_id]

RowKeys(rows) == [i \in 1..Len(rows) |-> RowKey(rows[i].trace_id, rows[i].span_id)]

\* the spans of the trees of traces[1..n] that have all the attributes, in
\* the order of the traces and per trace in pre-order
RECURSIVE SpansWithAllAttributes(_)
SpansWithAllAttributes(n) ==
    IF n = 0 THEN <<>>
    ELSE LET selected == SelectSeq(
                 PreOrder(telemetry.span_trees[n]),
                 LAMBDA span : HasAllAttributes(span, telemetry.attributes_to_return))
         IN  SpansWithAllAttributes(n - 1) \o
             [i \in 1..Len(selected) |->
                 RowKey(telemetry.traces[n].root_span_id, selected[i].span_id)]

\* C20: the rows returned by query_spans are, trace after trace in the order
\* of query_traces and span after span in depth-first pre-order, one row for
\* exactly the spans whose attributes contain every requested attribute
\* with a value that is not null.
C20_RowsInTraceAndPreOrder ==
    telemetry.pc = "returned" =>
        RowKeys(telemetry.rows) = SpansWithAllAttributes(Len(telemetry.span_trees))

\* the rows that were returned for the span span_id of the trace trace_id
RowsOf(trace_id, span_id) ==
    {i \in 1..Len(telemetry.rows) :
        RowKey(telemetry.rows[i].trace_id, telemetry.rows[i].span_id)
            = RowKey(trace_id, span_id)}

\* C21: a span that lacks a requested attribute, or has it null, has no row,
\* and every descendant of it that has all the requested attributes, not
\* null, has its row.
C21_DescendantsOfSkippedSpan ==
    telemetry.pc = "returned" =>
        \A n \in 1..Len(telemetry.span_trees) :
            LET spans == PreOrder(telemetry.span_trees[n])
                trace_id == telemetry.traces[n].root_span_id
            IN  \A j \in 1..Len(spans) :
                    ~HasAllAttributes(spans[j], telemetry.attributes_to_return) =>
                        /\ RowsOf(trace_id, spans[j].span_id) = {}
                        /\ LET below == PreOrder(spans[j])
                           IN  \A d \in 2..Len(below) :
                                   HasAllAttributes(below[d], telemetry.attributes_to_return)
                                       => Cardinality(RowsOf(trace_id, below[d].span_id)) = 1

\* the root and its first child lack the requested attribute; the only row
\* is that of the grandchild, which has it
C21_Witness ==
    /\ telemetry.pc = "returned"
    /\ telemetry.attributes_to_return = <<"input">>
    /\ Len(telemetry.span_trees) = 1
    /\ Len(PreOrder(telemetry.span_trees[1])) = 4
    /\ RowKeys(telemetry.rows) = <<RowKey(1, <<1, 1, 1>>)>>

\* the number of spans of the trees returned
RECURSIVE SpanCount(_)
SpanCount(n) ==
    IF n = 0 THEN 0
    ELSE SpanCount(n - 1) + Len(PreOrder(telemetry.span_trees[n]))

\* C22: with an empty attributes_to_return, query_spans returns one row for
\* every span of the trees returned, the spans whose attributes map is empty
\* or absent included.
C22_EmptyRequestOneRowPerSpan ==
    (telemetry.pc = "returned" /\ telemetry.attributes_to_return = <<>>) =>
        /\ Len(telemetry.rows) = SpanCount(Len(telemetry.span_trees))
        /\ \A n \in 1..Len(telemetry.span_trees) :
            LET spans == PreOrder(telemetry.span_trees[n])
            IN  \A j \in 1..Len(spans) :
                    Cardinality(RowsOf(telemetry.traces[n].root_span_id,
                                       spans[j].span_id)) = 1

-----------------------------------------------------------------------------
(* Telemetry.save_spans_to_dataset: query_spans, then append_rows of the    *)
(* dataset store when there are rows.  The calls of append_rows are logged. *)

DatasetIds == {"d1", "d2"}

\* lines 237-249: the call starts as a query_spans for attributes_to_save
SaveNew(attributes_to_save, dataset_id) ==
    TelemetryNew(attributes_to_save)
        @@ [dataset_id |-> dataset_id,
            append_rows |-> <<>>]     \* the calls of datasetio_api.append_rows

\* AfterQuerySpans with the slip of a missing test for rows
AfterQuerySpans_AlwaysAppends(st) ==
    [st EXCEPT !.append_rows = Append(@, [dataset_id |-> st.dataset_id, rows |-> st.rows]),
               !.pc = "append_rows"]

\* lines 251-254: annotation_rows is what query_spans returned
AfterQuerySpans(st) ==
    IF st.rows /= <<>>
        THEN [st EXCEPT !.append_rows = Append(@, [dataset_id |-> st.dataset_id,
                                                   rows |-> st.rows]),
                        !.pc = "append_rows"]
        ELSE [st EXCEPT !.pc = "saved"]

SaveQueryReturns ==
    /\ telemetry.pc = "returned"
    /\ telemetry' = AfterQuerySpans(telemetry)
    /\ UNCHANGED <<vllm, groq, meta, streams, registry, eval>>

\* line 252: the await of append_rows ends
AppendRowsReturns ==
    /\ telemetry.pc = "append_rows"
    /\ telemetry' = [telemetry EXCEPT !.pc = "saved"]
    /\ UNCHANGED <<vllm, groq, meta, streams, registry, eval>>

InitSave ==
    /\ telemetry \in {SaveNew(attributes_to_save, dataset_id) :
                          attributes_to_save \in AttributeLists,
                          dataset_id \in DatasetIds}
    /\ vllm = EmptyDict
    /\ groq = EmptyDict
    /\ meta = EmptyDict
    /\ streams = EmptyDict
    /\ registry = EmptyDict
    /\ eval = EmptyDict

NextSave ==
    \/ QueryTracesReturns
    \/ GetSpanTreeReturns
    \/ SaveQueryReturns
    \/ AppendRowsReturns

SpecSave == InitSave /\ [][NextSave]_vars

\* C23: append_rows is not called while the query runs nor when it produced
\* no row; when it produced rows, append_rows is called once, with the
\* dataset_id given and all the rows in one batch.
C23_AppendOnceWhenRows ==
    /\ telemetry.pc \in {"query_traces", "get_span_tree", "returned"}
           => telemetry.append_rows = <<>>
    /\ telemetry.pc = "append_rows" => telemetry.rows /= <<>>
    /\ telemetry.pc \in {"append_rows", "saved"} =>
           telemetry.append_rows =
               (IF telemetry.rows = <<>>
                    THEN <<>>
                    ELSE <<[dataset_id |-> telemetry.dataset_id, rows |-> telemetry.rows]>>)

\* the rows of two traces were appended in one call
C23_Witness ==
    /\ telemetry.pc = "saved"
    /\ Len(telemetry.span_trees) = 2
    /\ Len(telemetry.rows) >= 2
    /\ Len(telemetry.append_rows) = 1
    /\ telemetry.append_rows[1].rows = telemetry.rows

-----------------------------------------------------------------------------
(* DiskRegistry.  A JSON text is a record that says what was encoded.       *)
(* pydantic.parse_obj_as is given the JSON text of an object, not the       *)
(* decoded object; whether it accepts a text depends on the pydantic        *)
(* installed, so both are explored (accepts_text).  A register call is      *)
(* suspended twice, in kvstore.get and in kvstore.set.                      *)

\* Most register calls that are made.
MaxCalls == 3

RoutableObjectWithProvider(identifier, provider_id) ==
    [identifier |-> identifier, provider_id |-> provider_id]

RoutableObjects ==
    {RoutableObjectWithProvider("m1", "p1"),
     RoutableObjectWithProvider("m1", "p2"),
     RoutableObjectWithProvider("m2", "p1")}

Identifiers == {"m1", "m2"}

KEY_FORMAT(identifier) == <<"distributions:registry:", identifier>>

model_dump_json(obj) == [json |-> "object", of |-> obj]

json_dumps(list) == [json |-> "array", of |-> list]

\* json.loads of the text of an array
json_loads_array(json_str) == json_str.of

parse_obj_as(accepts_text, obj_str) ==
    IF accepts_text THEN Returned(obj_str.of)
                    ELSE Raised("ValidationError")

\* lines 24-39
registry_get(reg, identifier) ==
    IF KEY_FORMAT(identifier) \notin DOMAIN reg.kvstore
        THEN Returned(<<>>)
        ELSE LET objects_data == json_loads_array(reg.kvstore[KEY_FORMAT(identifier)])
             IN  IF \E i \in 1..Len(objects_data) :
                        parse_obj_as(reg.accepts_text, objects_data[i]).raised /= "none"
                     THEN Raised("ValidationError")
                     ELSE Returned([i \in 1..Len(objects_data) |->
                                      parse_obj_as(reg.accepts_text, objects_data[i]).value])

\* the register calls that returned, for identifier
Completed(reg, identifier) ==
    {i \in 1..Len(reg.calls) :
        reg.calls[i].pc = "done" /\ reg.calls[i].obj.identifier = identifier}

\* lines 43-47: self.get has returned result; up to the call of kvstore.set.
\* Line 47 dumps obj once for every element of existing_objects.
AfterGet(reg, i, result) ==
    LET call == reg.calls[i]
    IN  IF result.raised /= "none"
            THEN [reg EXCEPT !.calls[i].pc = "raised", !.calls[i].raised = result.raised]
            ELSE LET existing_objects == Append(result.value, call.obj)
                 IN  [reg EXCEPT
                         !.calls[i].pc = "set",
                         !.calls[i].seen_done = Cardinality(Completed(reg, call.obj.identifier)),
                         !.calls[i].objects_json =
                             [j \in 1..Len(existing_objects) |-> model_dump_json(call.obj)]]

\* StoredAfterSet with the slip of a store that appends to what it holds
StoredAfterSet_AppendsToCurrent(kvstore, call) ==
    LET key == KEY_FORMAT(call.obj.identifier)
        current == IF key \in DOMAIN kvstore THEN json_loads_array(kvstore[key]) ELSE <<>>
    IN  DictSet(kvstore, key, json_dumps(Append(current, model_dump_json(call.obj))))

\* lines 48-50
StoredAfterSet(kvstore, call) ==
    DictSet(kvstore, KEY_FORMAT(call.obj.identifier), json_dumps(call.objects_json))

RegistryNew(accepts_text) ==
    [accepts_text |-> accepts_text,
     kvstore |-> EmptyDict,
     calls |-> <<>>]              \* the register calls made so far

RegisterCall(obj) ==
    [obj |-> obj,
     pc |-> "get",
     raised |-> "none",
     objects_json |-> <<>>,
     seen_done |-> 0]             \* how many calls for the identifier had returned at the get

\* no register call is under way
Quiescent == \A i \in 1..Len(registry.calls) : registry.calls[i].pc \in {"done", "raised"}

\* register is called when no other call is under way
RegisterAlone ==
    /\ Len(registry.calls) < MaxCalls
    /\ Quiescent
    /\ \E obj \in RoutableObjects :
        registry' = [registry EXCEPT !.calls = Append(@, RegisterCall(obj))]
    /\ UNCHANGED <<vllm, groq, meta, streams, telemetry, eval>>

\* register is called, whatever the other calls are doing
RegisterAnytime ==
    /\ Len(registry.calls) < MaxCalls
    /\ \E obj \in RoutableObjects :
        registry' = [registry EXCEPT !.calls = Append(@, RegisterCall(obj))]
    /\ UNCHANGED <<vllm, groq, meta, streams, telemetry, eval>>

\* line 43: the kvstore is read
KvGetReturns ==
    /\ \E i \in 1..Len(registry.calls) :
        /\ registry.calls[i].pc = "get"
        /\ registry' = AfterGet(registry, i,
                                registry_get(registry, registry.calls[i].obj.identifier))
    /\ UNCHANGED <<vllm, groq, meta, streams, telemetry, eval>>

\* lines 48-50: the kvstore is written
KvSetReturns ==
    /\ \E i \in 1..Len(registry.calls) :
        /\ registry.calls[i].pc = "set"
        /\ registry' = [registry EXCEPT
                            !.kvstore = StoredAfterSet(@, registry.calls[i]),
                            !.calls[i].pc = "done"]
    /\ UNCHANGED <<vllm, groq, meta, streams, telemetry, eval>>

InitRegistry ==
    /\ registry \in {RegistryNew(accepts_text) : accepts_text \in BOOLEAN}
    /\ vllm = EmptyDict
    /\ groq = EmptyDict
    /\ meta = EmptyDict
    /\ streams = EmptyDict
    /\ telemetry = EmptyDict
    /\ eval = EmptyDict

NextRegistry ==
    \/ RegisterAlone
    \/ KvGetReturns
    \/ KvSetReturns

NextRegistryRace ==
    \/ RegisterAnytime
    \/ KvGetReturns
    \/ KvSetReturns

SpecRegistry == InitRegistry /\ [][NextRegistry]_vars

SpecRegistryRace == InitRegistry /\ [][NextRegistryRace]_vars

\* the objects of the register calls for identifier that returned, in the
\* order of the calls
RECURSIVE Registered(_, _)
Registered(identifier, n) ==
    IF n = 0 THEN <<>>
    ELSE LET call == registry.calls[n]
         IN  IF call.pc = "done" /\ call.obj.identifier = identifier
                 THEN Append(Registered(identifier, n - 1), call.obj)
                 ELSE Registered(identifier, n - 1)

\* C24: after register calls made one after the other, get(identifier)
\* returns the objects registered under identifier, each once, in the order
\* of registration.
C24_GetReturnsRegistered ==
    Quiescent =>
        \A identifier \in Identifiers :
            LET result == registry_get(registry, identifier)
            IN  /\ result.raised = "none"
                /\ result.value = Registered(identifier, Len(registry.calls))

\* the number of entries stored for identifier
StoredLen(reg, identifier) ==
    IF KEY_FORMAT(identifier) \in DOMAIN reg.kvstore
        THEN Len(json_loads_array(reg.kvstore[KEY_FORMAT(identifier)]))
        ELSE 0

\* C25: register reads the list and writes it back in two steps.  The list
\* stored never has more entries than register calls have returned for the
\* identifier, and when a call writes after another call for the same
\* identifier returned since its read, the list it leaves has fewer entries
\* than calls have returned: a registration is lost.
C25_InterleavedRegisterLosesEntry ==
    [][ /\ \A identifier \in Identifiers :
            StoredLen(registry', identifier)
                <= Cardinality(Completed(registry', identifier))
        /\ \A i \in 1..Len(registry.calls) :
            LET call == registry.calls[i]
                identifier == call.obj.identifier
            IN  (/\ call.pc = "set"
                 /\ registry'.calls[i].pc = "done"
                 /\ Cardinality(Completed(registry, identifier)) > call.seen_done)
                    => StoredLen(registry', identifier)
                           < Cardinality(Completed(registry', identifier))
      ]_vars

\* two register calls for m1 have returned and one entry is stored
C25_Witness ==
    /\ Len(registry.calls) = 2
    /\ Cardinality(Completed(registry, "m1")) = 2
    /\ StoredLen(registry, "m1") = 1

-----------------------------------------------------------------------------
(* Tool call events of ModelInferenceImpl.chat_completion *)

\* the positions in meta.out of the tool call deltas of a parse status
MetaDeltas(parse_status) ==
    {i \in 1..Len(meta.out) :
        /\ meta.out[i].event_type = "progress"
        /\ meta.out[i].delta.type = "tool_call"
        /\ meta.out[i].delta.parse_status = parse_status}

\* C26: in a streaming run whose decoded message has tool calls, the event
\* right before the complete event is a progress event whose delta is a
\* tool call parsed with success, the last of the message, and every tool
\* call event carries the stop reason of the complete event.
C26_ToolCallBeforeComplete ==
    (meta.stream /\ meta.out /= <<>> /\ IsComplete(Last(meta.out))
                 /\ meta.tool_calls /= <<>>) =>
        LET n == Len(meta.out)
        IN  /\ n - 1 \in MetaDeltas("success")
            /\ meta.out[n - 1].delta.content = Last(meta.tool_calls)
            /\ Cardinality(MetaDeltas("success")) = Len(meta.tool_calls)
            /\ \A i \in MetaDeltas("success") :
                /\ meta.out[i].stop_reason = meta.out[n].stop_reason
                /\ \E k \in 1..Len(meta.tool_calls) :
                    meta.out[i].delta.content = meta.tool_calls[k]

\* a stream that ended on <|eom_id|> with two tool calls decoded
C26_Witness ==
    /\ meta.stream
    /\ meta.pc = "returned"
    /\ Len(meta.tool_calls) = 2
    /\ meta.tokens /= <<>>
    /\ Last(meta.tokens) = eom_id
    /\ Last(meta.out).stop_reason = "end_of_message"

\* C27: in a streaming run, a tool call delta of status in_progress comes
\* only after one of status started, at most one delta of status started is
\* emitted, and after it the delta of every token is a tool call delta,
\* never plain text.
C27_StartedBeforeInProgress ==
    meta.stream =>
        /\ Cardinality(MetaDeltas("started")) <= 1
        /\ \A i \in MetaDeltas("in_progress") :
            \E j \in MetaDeltas("started") : j < i
        /\ \A j \in MetaDeltas("started") :
            \A i \in (j + 1)..Len(meta.out) :
                meta.out[i].event_type = "progress" => meta.out[i].delta.type = "tool_call"
        /\ meta.ipython <=> MetaDeltas("started") /= {}

\* after <|python_tag|> the text of a token and of a second <|python_tag|>
\* were emitted as tool call deltas in progress
C27_Witness ==
    /\ meta.stream
    /\ meta.tokens = <<python_tag, "a", python_tag>>
    /\ Cardinality(MetaDeltas("started")) = 1
    /\ Cardinality(MetaDeltas("in_progress")) = 2

-----------------------------------------------------------------------------
(* Lifecycle of index_to_tool_call in _convert_streaming_results *)

\* the chunk carries finish_reason "tool_calls", the provider's signal that
\* the tool calls are complete
SignalsCompletion(chunk_str) ==
    /\ "json" \in DOMAIN chunk_str.data_str
    /\ chunk_str.data_str.json["choices"][1]["finish_reason"] = "tool_calls"

\* the number of the last chunk pulled that signals completion, 0 when none
LastSignal ==
    LET signals == {c \in 1..Len(vllm.chunks) : SignalsCompletion(vllm.chunks[c])}
    IN  IF signals = {} THEN 0
        ELSE CHOOSE c \in signals : \A other \in signals : other <= c

\* C28: when the generator awaits the next chunk, the buffered calls of every
\* completion signal so far have been emitted, and the accumulator holds
\* nothing of them: it is what the fragments that arrived after the last
\* signal build from an empty dict.
C28_AccumulatorEmptiedAfterEmission ==
    vllm.pc = "await_chunk" =>
        vllm.index_to_tool_call =
            ObserveAll(<<>>, Fragments(vllm.chunks, LastSignal + 1, Len(vllm.chunks)))

\* C29: within one stream no call index is reported by more than one
\* succeeded tool call event, whatever the chunk sequence.
C29_IndexReportedAtMostOnce ==
    \A index \in Indices : Cardinality(ReportsOf(index)) <= 1

\* the accumulator that the step begins to finalize, as a set: empty when
\* the step does not reach line 714 with finish_reason "tool_calls"
Finalizing ==
    IF /\ PullsChunk
       /\ Last(vllm'.chunks) \in ToolCallsChunks
       /\ SignalsCompletion(Last(vllm'.chunks))
        THEN {ObserveAll(vllm.index_to_tool_call, ChunkFragments(Last(vllm'.chunks)))}
    ELSE IF /\ vllm.pc = "yield_text"
            /\ vllm'.pc /= "yield_text"
            /\ vllm.finish_reason = "tool_calls"
        THEN {vllm.index_to_tool_call}
    ELSE {}

\* C30: at the moment of finalization every entry of index_to_tool_call has
\* an argument string, a call_id and a tool_name, whatever the fragments
\* were.
C30_EntriesCompleteAtFinalization ==
    [][\A d \in Finalizing :
          \A k \in 1..Len(d) :
              {"arguments_str", "call_id", "tool_name"} \subseteq DOMAIN d[k].value]_vars

-----------------------------------------------------------------------------
(* Fields of a finalized call *)

\* the fragments addressed to index that carry the key path, in arrival
\* order: <<"id">> or <<"function", "name">>
Carrying(index, path, fragments) ==
    SelectSeq(fragments,
              LAMBDA tc : /\ tc["index"] = index
                          /\ path[1] \in DOMAIN tc
                          /\ Len(path) = 2 => path[2] \in DOMAIN tc[path[1]])

\* the record reported by a decoding has under key the value that the last
\* of the fragments wrote, and lacks the key when there is none
LastWriteWins(record, key, writes, path) ==
    IF writes = <<>> THEN key \notin DOMAIN record
    ELSE /\ key \in DOMAIN record
         /\ record[key] = IF Len(path) = 2 THEN Last(writes)[path[1]][path[2]]
                                            ELSE Last(writes)[path[1]]

\* call_id and tool_name of every reported call are those of the last
\* fragment of its index that carried one
ReportsLastWrites ==
    \A j \in 1..Len(vllm.decoded) :
        LET call == vllm.decoded[j]
            fragments == Fragments(vllm.chunks, 1, call.chunk)
        IN  call.event > 0 =>
                LET record == vllm.out[call.event].delta.content
                IN  /\ LastWriteWins(record, "call_id",
                                     Carrying(call.index, <<"id">>, fragments), <<"id">>)
                    /\ LastWriteWins(record, "tool_name",
                                     Carrying(call.index, <<"function", "name">>, fragments),
                                     <<"function", "name">>)

-----------------------------------------------------------------------------
(* Termination of _convert_streaming_results *)

\* C32: once the complete event is emitted, or an exception has left the
\* generator, no further event is emitted and no further chunk is pulled
\* from vllm_result.
C32_NothingAfterCompleteOrError ==
    [][((\E i \in 1..Len(vllm.out) : IsComplete(vllm.out[i])) \/ vllm.pc = "raised") =>
          /\ vllm'.out = vllm.out
          /\ vllm'.chunks = vllm.chunks
          /\ vllm'.pc \in {"returned", "raised"}]_vars

\* the generator returned after [DONE] while vllm_result could deliver more
\* chunks
C32_Witness ==
    /\ vllm.pc = "returned"
    /\ IsComplete(Last(vllm.out))
    /\ Last(vllm.chunks) = DoneChunk
    /\ Len(vllm.chunks) < MaxChunks
    /\ ~vllm.exhausted

-----------------------------------------------------------------------------
(* Outcome of a tool call announced by ModelInferenceImpl.chat_completion *)

\* the complete event of the streaming run is emitted
MetaCompleted == meta.stream /\ meta.out /= <<>> /\ IsComplete(Last(meta.out))

-----------------------------------------------------------------------------
(* Fields of the rows of Telemetry.query_spans *)

\* C34: every row carries the trace_id of the trace whose tree its span was
\* extracted from, which is the span's own trace_id, and the span_id and the
\* name of that span.
C34_RowNamesTraceAndSpan ==
    \A i \in 1..Len(telemetry.rows) :
        LET row == telemetry.rows[i]
        IN  \E n \in 1..Len(telemetry.span_trees) :
                LET spans == PreOrder(telemetry.span_trees[n])
                IN  \E j \in 1..Len(spans) :
                        /\ row.trace_id = telemetry.traces[n].trace_id
                        /\ row.trace_id = spans[j].trace_id
                        /\ row.span_id = spans[j].span_id
                        /\ row.step_name = spans[j].name

-----------------------------------------------------------------------------
(* The span tree builder behind get_span_tree.  The protocol declares the  *)
(* method without a body; the builder is modelled from its contract: group *)
(* the flat spans by parent_span_id, attach the children recursively from  *)
(* the root, and stop at max_depth.                                        *)

MaxDepth == 2

SpanIds == {1, 2, 3}

\* a flat span; parent 0 stands for a parent_span_id that is None
FlatSpan(span_id, parent) ==
    IF parent = 0 THEN [span_id |-> span_id]
    ELSE [span_id |-> span_id, parent_span_id |-> parent]

\* the flat span lists: every span has any span, itself included, or none as
\* its parent, so the parent pointers may form cycles
FlatSpanLists ==
    {<<FlatSpan(1, p1), FlatSpan(2, p2), FlatSpan(3, p3)>> :
        p1 \in {0} \cup SpanIds, p2 \in {0} \cup SpanIds, p3 \in {0} \cup SpanIds}

\* the spans grouped under parent_span_id = span_id, in list order
ChildSpans(flat_spans, span_id) ==
    SelectSeq(flat_spans,
              LAMBDA s : "parent_span_id" \in DOMAIN s /\ s.parent_span_id = span_id)

\* buildTree with the slip of a depth test that lets one more level through
RECURSIVE buildTree_OneLevelMore(_, _, _, _)
buildTree_OneLevelMore(span, flat_spans, max_depth, depth) ==
    LET below == ChildSpans(flat_spans, span.span_id)
    IN  [span_id |-> span.span_id,
         children |-> IF depth > max_depth THEN <<>>
                      ELSE [i \in 1..Len(below) |->
                               buildTree_OneLevelMore(below[i], flat_spans,
                                                      max_depth, depth + 1)]]

\* the tree of span, which lies at depth; the children of a span at
\* max_depth are left out
RECURSIVE buildTree(_, _, _, _)
buildTree(span, flat_spans, max_depth, depth) ==
    LET below == ChildSpans(flat_spans, span.span_id)
    IN  [span_id |-> span.span_id,
         children |-> IF depth >= max_depth THEN <<>>
                      ELSE [i \in 1..Len(below) |->
                               buildTree(below[i], flat_spans, max_depth, depth + 1)]]

TreeNew(flat_spans, max_depth) ==
    [pc |-> "build_tree", flat_spans |-> flat_spans, max_depth |-> max_depth,
     tree |-> EmptyDict]

\* get_span_tree(span_id = the first span, max_depth) returns
BuildTreeReturns ==
    /\ telemetry.pc = "build_tree"
    /\ telemetry' = [telemetry EXCEPT
                        !.tree = buildTree(telemetry.flat_spans[1], telemetry.flat_spans,
                                           telemetry.max_depth, 0),
                        !.pc = "returned"]
    /\ UNCHANGED <<vllm, groq, meta, streams, registry, eval>>

InitTree ==
    /\ telemetry \in {TreeNew(flat_spans, max_depth) :
                          flat_spans \in FlatSpanLists, max_depth \in 0..MaxDepth}
    /\ vllm = EmptyDict
    /\ groq = EmptyDict
    /\ meta = EmptyDict
    /\ streams = EmptyDict
    /\ registry = EmptyDict
    /\ eval = EmptyDict

NextTree == BuildTreeReturns

SpecTree == InitTree /\ [][NextTree]_vars

\* the depth of the deepest span of a tree, the root being at depth 0
RECURSIVE TreeDepth(_)
TreeDepth(tree) ==
    IF tree.children = <<>> THEN 0
    ELSE LET depths == {TreeDepth(tree.children[i]) : i \in 1..Len(tree.children)}
         IN  1 + CHOOSE d \in depths : \A other \in depths : other <= d

\* every node of the tree is a span of the flat list, and above max_depth
\* its children are the spans of the list that name it as their parent, in
\* list order
RECURSIVE TreeOfSpans(_, _)
TreeOfSpans(tree, depth) ==
    LET below == ChildSpans(telemetry.flat_spans, tree.span_id)
    IN  /\ DOMAIN tree = {"span_id", "children"}
        /\ \E i \in 1..Len(telemetry.flat_spans) :
               telemetry.flat_spans[i].span_id = tree.span_id
        /\ IF depth >= telemetry.max_depth
              THEN tree.children = <<>>
              ELSE /\ Len(tree.children) = Len(below)
                   /\ \A i \in 1..Len(below) :
                       /\ tree.children[i].span_id = below[i].span_id
                       /\ TreeOfSpans(tree.children[i], depth + 1)

\* C35: for every flat span list, cyclic parent pointers included, the
\* builder with a max_depth returns a finite tree in which no span lies
\* deeper than max_depth; the spans beyond the limit are left out, and
\* nothing stands in their place.
C35_TreeIsDepthBounded ==
    telemetry.pc = "returned" =>
        /\ TreeDepth(telemetry.tree) <= telemetry.max_depth
        /\ TreeOfSpans(telemetry.tree, 0)

\* spans 1 and 2 name each other as parent: the tree is 1, 2, 1 and ends
\* at max_depth
C35_Witness ==
    /\ telemetry.pc = "returned"
    /\ telemetry.max_depth = MaxDepth
    /\ telemetry.flat_spans[1] = FlatSpan(1, 2)
    /\ telemetry.flat_spans[2] = FlatSpan(2, 1)
    /\ TreeDepth(telemetry.tree) = MaxDepth

-----------------------------------------------------------------------------
(* ConsoleTelemetryImpl.log_event *)

MaxEvents == 3

ConsoleSpanIds == {"s1", "s2"}

SpanStartEvent(span_id, parent_span_id) ==
    [type |-> "span_start", span_id |-> span_id, parent_span_id |-> parent_span_id,
     name |-> <<"name of", span_id>>]

LoggingEvent(span_id) == [type |-> "log", span_id |-> span_id]

\* the events that log_event may be given; a span may name any span, itself
\* included, or None as its parent
Events ==
    {SpanStartEvent(s, p) : s \in ConsoleSpanIds, p \in {None} \cup ConsoleSpanIds}
    \cup {LoggingEvent(s) : s \in ConsoleSpanIds}

\* lines 15-16 and the locals of log_event; logged counts the calls
ConsoleNew ==
    [pc |-> "idle", spans |-> EmptyDict, span_id |-> None, names |-> <<>>, logged |-> 0]

\* lines 23-27: the span start is recorded and the walk begins at the span
\* of the event
LogEvent ==
    /\ telemetry.pc = "idle"
    /\ telemetry.logged < MaxEvents
    /\ \E event \in Events :
        telemetry' = [telemetry EXCEPT
            !.spans = IF event.type = "span_start"
                         THEN DictSet(@, event.span_id, event)
                         ELSE @,
            !.names = <<>>,
            !.span_id = event.span_id,
            !.logged = @ + 1,
            !.pc = "walk"]
    /\ UNCHANGED <<vllm, groq, meta, streams, registry, eval>>

\* lines 28-34: one iteration of while True.  The walk is followed for one
\* iteration more than there are recorded spans: by then it has entered some
\* span for the second time, and it repeats itself from there.
WalkStep ==
    /\ telemetry.pc = "walk"
    /\ Len(telemetry.names) <= Cardinality(DOMAIN telemetry.spans)
    /\ IF telemetry.span_id \notin DOMAIN telemetry.spans
          THEN telemetry' = [telemetry EXCEPT !.pc = "idle"]
          ELSE LET span_event == telemetry.spans[telemetry.span_id]
               IN  telemetry' = [telemetry EXCEPT
                       !.names = <<span_event.name>> \o @,
                       !.span_id = span_event.parent_span_id]
    /\ UNCHANGED <<vllm, groq, meta, streams, registry, eval>>

InitConsole ==
    /\ telemetry = ConsoleNew
    /\ vllm = EmptyDict
    /\ groq = EmptyDict
    /\ meta = EmptyDict
    /\ streams = EmptyDict
    /\ registry = EmptyDict
    /\ eval = EmptyDict

NextConsole ==
    \/ LogEvent
    \/ WalkStep

SpecConsole == InitConsole /\ [][NextConsole]_vars

\* C36: the walk of log_event up the parent_span_id chain ends, whatever
\* spans were recorded.  The walk is determined by spans, which it does not
\* change, so it ends exactly if it enters no span twice: it then makes at
\* most one iteration per recorded span.
C36_WalkEnds ==
    Len(telemetry.names) <= Cardinality(DOMAIN telemetry.spans)

-----------------------------------------------------------------------------
(* VLLMInferenceImpl.register_model and the registration check of          *)
(* chat_completion.  The variable vllm holds the provider instance.        *)

MaxRegistrations == 3

\* llama_models.sku_list.resolve_model and lines 350-355: a Llama model name
\* resolves to its Hugging Face repo, any other id passes through
ResolvedModelId(provider_model_id) ==
    IF provider_model_id = "Llama3.1-8B-Instruct"
        THEN "meta-llama/Llama-3.1-8B-Instruct"
        ELSE provider_model_id

Model(model_id, provider_model_id) ==
    [model_id |-> model_id, provider_model_id |-> provider_model_id]

\* m1 and m2 resolve to the same model, m3 to another
Models ==
    {Model("m1", "Llama3.1-8B-Instruct"),
     Model("m2", "meta-llama/Llama-3.1-8B-Instruct"),
     Model("m3", "other/model")}

\* lines 307-311; engine and chat are None: the keys are absent.  created
\* counts the engines made by AsyncLLMEngine.from_engine_args, calls are
\* the calls of register_model with their local resolved_model_id
ProviderNew ==
    [resolved_model_id |-> None, model_ids |-> {}, created |-> 0, calls |-> <<>>]

\* lines 333-402: register_model up to its return, its raise, or its await
\* of engine.get_model_config()
RegisterModelCalled(st, model) ==
    LET resolved_model_id == ResolvedModelId(model.provider_model_id)
        call == [model |-> model, resolved_model_id |-> resolved_model_id]
    IN  IF st.resolved_model_id /= None
            THEN IF resolved_model_id /= st.resolved_model_id
                    THEN [st EXCEPT !.calls = Append(@, call @@ [pc |-> "raised"])]
                    ELSE [st EXCEPT !.calls = Append(@, call @@ [pc |-> "returned"])]
        ELSE
            [engine |-> [model |-> resolved_model_id, number |-> st.created + 1]]
            @@ [st EXCEPT !.created = @ + 1,
                          !.calls = Append(@, call @@ [pc |-> "await_model_config"])]

\* lines 402-424: the await of call i returns
RegisterModelResumed(st, i) ==
    [chat |-> [engine_client |-> st.engine,
               base_model_paths |-> st.calls[i].resolved_model_id]]
    @@ [st EXCEPT !.resolved_model_id = st.calls[i].resolved_model_id,
                  !.model_ids = @ \cup {st.calls[i].model.model_id},
                  !.calls[i].pc = "returned"]

\* lines 484-488: the registration check of chat_completion passes
PassesRegistrationCheck(st, model_id) == model_id \in st.model_ids

RegisterModel ==
    /\ Len(vllm.calls) < MaxRegistrations
    /\ \E model \in Models : vllm' = RegisterModelCalled(vllm, model)
    /\ UNCHANGED <<groq, meta, streams, telemetry, registry, eval>>

ModelConfigReturns ==
    /\ \E i \in 1..Len(vllm.calls) :
        /\ vllm.calls[i].pc = "await_model_config"
        /\ vllm' = RegisterModelResumed(vllm, i)
    /\ UNCHANGED <<groq, meta, streams, telemetry, registry, eval>>

InitProvider ==
    /\ vllm = ProviderNew
    /\ groq = EmptyDict
    /\ meta = EmptyDict
    /\ streams = EmptyDict
    /\ telemetry = EmptyDict
    /\ registry = EmptyDict
    /\ eval = EmptyDict

NextProvider ==
    \/ RegisterModel
    \/ ModelConfigReturns

SpecProvider == InitProvider /\ [][NextProvider]_vars

\* the fields of the provider instance
InstanceFields(st) == [key \in DOMAIN st \ {"calls", "created"} |-> st[key]]

\* the step is a call of register_model that raises
RegistrationRaises ==
    /\ Len(vllm'.calls) = Len(vllm.calls) + 1
    /\ Last(vllm'.calls).pc = "raised"

\* C37: the provider serves one model: once resolved_model_id is set it
\* never changes, at most one engine is ever created, and a registration
\* that resolves to another model id raises and leaves the instance as it
\* was, however the calls of register_model interleave.
C37_OneModelPerInstance ==
    [][/\ vllm.resolved_model_id /= None
           => vllm'.resolved_model_id = vllm.resolved_model_id
       /\ vllm'.created <= 1
       /\ (/\ Len(vllm'.calls) = Len(vllm.calls) + 1
           /\ vllm.resolved_model_id /= None
           /\ Last(vllm'.calls).resolved_model_id /= vllm.resolved_model_id)
           => RegistrationRaises
       /\ RegistrationRaises
           => /\ InstanceFields(vllm') = InstanceFields(vllm)
              /\ vllm'.created = vllm.created]_vars

\* C38: a model whose register_model returned without raising passes the
\* registration check of chat_completion.
C38_RegisteredModelPassesCheck ==
    \A i \in 1..Len(vllm.calls) :
        vllm.calls[i].pc = "returned" =>
            PassesRegistrationCheck(vllm, vllm.calls[i].model.model_id)

-----------------------------------------------------------------------------
(* The job store of MetaReferenceEvalImpl *)

MaxBatches == 3

\* line 34, with the calls of evaluate_batch and the last call of job_result
EvalNew == [jobs |-> EmptyDict, calls |-> <<>>, job_result |-> EmptyDict]

\* StoreResult with the slip of counting from the last job: the id of the
\* job stored before is used again
StoreResult_ReusesLastId(jobs, res) ==
    LET len == Cardinality(DOMAIN jobs)
        job_id == str(PyInt(IF len = 0 THEN 0 ELSE len - 1))
    IN  [job_id |-> job_id, jobs |-> DictSet(jobs, job_id, res)]

\* lines 76-77: the job id is the number of jobs stored, as a string
StoreResult(jobs, res) ==
    LET job_id == str(PyInt(Cardinality(DOMAIN jobs)))
    IN  [job_id |-> job_id, jobs |-> DictSet(jobs, job_id, res)]

\* lines 119-123
job_status(jobs, job_id) == IF job_id \in DOMAIN jobs THEN "completed" ELSE "not_found"

\* lines 59-70: evaluate_batch is called and awaits its collaborators
EvaluateBatchCalled ==
    /\ Len(eval.calls) < MaxBatches
    /\ eval' = [eval EXCEPT !.calls = Append(@, [pc |-> "await_evaluate"])]
    /\ UNCHANGED <<vllm, groq, meta, streams, telemetry, registry>>

\* lines 70-78: evaluate returns res to call i, which stores it and returns
\* the job
EvaluateReturns ==
    /\ \E i \in 1..Len(eval.calls), res \in {"r1", "r2"} :
        /\ eval.calls[i].pc = "await_evaluate"
        /\ LET stored == StoreResult(eval.jobs, res)
           IN  eval' = [eval EXCEPT
                   !.jobs = stored.jobs,
                   !.calls[i] = [pc |-> "returned", res |-> res, job_id |-> stored.job_id]]
    /\ UNCHANGED <<vllm, groq, meta, streams, telemetry, registry>>

\* lines 65-70: the validation, the dataset store or evaluate raises in call i
EvaluateRaises ==
    /\ \E i \in 1..Len(eval.calls) :
        /\ eval.calls[i].pc = "await_evaluate"
        /\ eval' = [eval EXCEPT !.calls[i] = [pc |-> "raised"]]
    /\ UNCHANGED <<vllm, groq, meta, streams, telemetry, registry>>

\* lines 128-133: job_result(job_id); job_status does not suspend, so the
\* call is one step
JobResult ==
    /\ \E job_id \in {str(PyInt(n)) : n \in 0..MaxBatches} :
        eval' = [eval EXCEPT !.job_result =
                    IF job_status(eval.jobs, job_id) /= "completed"
                        THEN [job_id |-> job_id, raised |-> "ValueError"]
                        ELSE [job_id |-> job_id, raised |-> "none",
                              value |-> eval.jobs[job_id]]]
    /\ UNCHANGED <<vllm, groq, meta, streams, telemetry, registry>>

InitEval ==
    /\ eval = EvalNew
    /\ vllm = EmptyDict
    /\ groq = EmptyDict
    /\ meta = EmptyDict
    /\ streams = EmptyDict
    /\ telemetry = EmptyDict
    /\ registry = EmptyDict

NextEval ==
    \/ EvaluateBatchCalled
    \/ EvaluateReturns
    \/ EvaluateRaises
    \/ JobResult

SpecEval == InitEval /\ [][NextEval]_vars

\* the calls of evaluate_batch that returned
ReturnedBatches == {i \in 1..Len(eval.calls) : eval.calls[i].pc = "returned"}

\* C39: the calls of evaluate_batch that returned have job ids distinct from
\* each other; the status of such an id is completed and its stored result is
\* the result of that call, which job_result returns; a stored result is
\* never overwritten or removed, however the calls interleave; job_result of
\* an unknown id raises ValueError and changes nothing.
C39_JobStoreKeepsEveryResult ==
    /\ [](/\ \A i \in ReturnedBatches, j \in ReturnedBatches :
               i /= j => eval.calls[i].job_id /= eval.calls[j].job_id
          /\ \A i \in ReturnedBatches :
               /\ job_status(eval.jobs, eval.calls[i].job_id) = "completed"
               /\ eval.jobs[eval.calls[i].job_id] = eval.calls[i].res
          /\ Cardinality(DOMAIN eval.jobs) = Cardinality(ReturnedBatches))
    /\ [][/\ \A job_id \in DOMAIN eval.jobs :
               /\ job_id \in DOMAIN eval'.jobs
               /\ eval'.jobs[job_id] = eval.jobs[job_id]
           /\ eval'.job_result /= eval.job_result
               => /\ eval'.jobs = eval.jobs
                  /\ eval'.calls = eval.calls
                  /\ IF \E i \in ReturnedBatches :
                            eval.calls[i].job_id = eval'.job_result.job_id
                        THEN /\ eval'.job_result.raised = "none"
                             /\ \A i \in ReturnedBatches :
                                 eval.calls[i].job_id = eval'.job_result.job_id
                                     => eval'.job_result.value = eval.calls[i].res
                        ELSE eval'.job_result.raised = "ValueError"]_vars

\* two calls overlapped and returned in the reverse order of their start,
\* with different results; job_result of the second id returned its result
C39_Witness ==
    /\ Len(eval.calls) >= 2
    /\ eval.calls[1].pc = "returned"
    /\ eval.calls[2].pc = "returned"
    /\ eval.calls[1].job_id = "1"
    /\ eval.calls[2].job_id = "0"
    /\ eval.calls[1].res /= eval.calls[2].res
    /\ "job_id" \in DOMAIN eval.job_result
    /\ eval.job_result.job_id = "1"
    /\ eval.job_result.raised = "none"

====
